---- MODULE Spec2Model ----
(***************************************************************************)
(* Clinic scheduling dashboard: the list view (dashboard/scans/page.tsx)   *)
(* and the agenda view (the DashboardHome component in app/layout.tsx),    *)
(* each a React component whose state lives in useState cells.  A step of  *)
(* the model is one handler run to completion together with the render and *)
(* the effects it triggers; every awaited request is a record in the bag   *)
(* `inflight` whose response is a later step.                              *)
(*                                                                         *)
(* Instants are minutes since the model's epoch (UTC), a date string       *)
(* "YYYY-MM-DD" is a day number, a time string "HH:MM" is a minute of the  *)
(* day; the empty string of a date or time input is NoDate / NoTime.       *)
(***************************************************************************)
EXTENDS Integers, Sequences, FiniteSets, Bags, TLC

VARIABLES
  view,            \* which page component is mounted: "list", "agenda" or "none"
  sockets,         \* the open push connections, each with the closure of its effect
  referenceLoads,  \* loadUsers / loadDoctors / loadClinics calls awaiting their response
  role,            \* getStoredAuth().role
  authId,          \* getStoredAuth()?.id, NoUser when the record gives none
  tzOffset,        \* Date.prototype.getTimezoneOffset(), minutes (UTC - local)
  scans,           \* the Store: useState<Scan[]>
  error,           \* useState<string | null>
  inflight,        \* bag of requests awaiting their response
  filters,         \* list view: the seven filter cells
  page,            \* list view
  limit,           \* list view
  pageCount,       \* list view
  isBusy,          \* list view
  formState,       \* list view: ScanFormState
  editingScan,     \* list view: the snapshot handed to onEdit, or NoScan
  showForm,        \* list view
  showTimePicker,  \* list view
  showFilters,     \* list view: the "Filtros" modal
  occupiedSlots,   \* list view: local slot starts reported as taken
  occupiedError,   \* list view
  isSlotsLoading,  \* list view
  selectedDate,    \* agenda view
  isLoading,       \* agenda view
  showCreate,      \* agenda view
  showManage,      \* agenda view
  createForm,      \* agenda view: CreateScanForm (formState in layout.tsx)
  selectedSlot,    \* agenda view
  selectedScan,    \* agenda view: the snapshot handed to onOpenManage, or NoScan
  last             \* history: the handler path that ran last

envVars == <<view, role, authId, tzOffset>>
listVars == <<filters, page, limit, pageCount, isBusy>>
formVars == <<formState, editingScan, showForm, showTimePicker, occupiedSlots,
              occupiedError, isSlotsLoading>>
agendaVars == <<selectedDate, isLoading>>
modalVars == <<showCreate, showManage, createForm, selectedSlot, selectedScan>>
vars == <<view, sockets, referenceLoads, role, authId, tzOffset, scans, error, inflight, filters, page, limit,
          pageCount, isBusy, formState, editingScan, showForm, showTimePicker,
          showFilters, occupiedSlots, occupiedError, isSlotsLoading, selectedDate, isLoading,
          showCreate, showManage, createForm, selectedSlot, selectedScan, last>>

----------------------------------------------------------------------------
(* Bounds of the model *)

MaxScanId == 2       \* appointment ids are 1..MaxScanId
SmallLimit == 1      \* stands for the "5 por pagina" option
DefaultLimit == 2    \* stands for the initial page size, 10
MaxPage == 2         \* pages are 1..MaxPage
MaxInFlight == 2     \* requests awaiting a response at one time
MaxDay == 2          \* calendar days are 0..MaxDay

----------------------------------------------------------------------------
(* Values *)

NoUser == 0          \* assignedTo: null
NoFilter == 0        \* "" in an id-valued filter cell
NoDate == -1         \* "" in a date input
NoTime == -1         \* "" as a time value
MalformedDate == -2  \* a date string of which new Date(...) makes an Invalid Date
NotANumber == -1     \* NaN, the getDay() of an Invalid Date
NoError == "null"    \* error: null
MinutesPerDay == 1440
Me == 1              \* the id of the user who logged in
OtherUser == 2

ScanIds == 1..MaxScanId
Days == 0..MaxDay
Statuses == {"unconfirmed", "confirmed", "cancelled"}
LimitOptions == {SmallLimit, DefaultLimit}

isAdmin == role = "Administrator"
isScanner == role = "Scanner"

(* page.tsx createdBy / requestedByDoctor / clinic of an appointment: fixed
   per id in the payloads the model draws. *)
CreatorOf(id) == IF id = 1 THEN Me ELSE OtherUser
DoctorOf(id) == IF id = 1 THEN 1 ELSE 2
ClinicOf(doctor) == doctor

Scan(id, dateTime, assignedTo, isScanned, status) ==
  [id |-> id, dateTime |-> dateTime, createdBy |-> CreatorOf(id),
   assignedTo |-> assignedTo, doctor |-> DoctorOf(id),
   clinic |-> ClinicOf(DoctorOf(id)), isScanned |-> isScanned,
   status |-> status]

----------------------------------------------------------------------------
(* Time conversions *)

(* The instant at which the viewer's wall clock shows `minute` of `day`. *)
LocalInstant(day, minute) == day * MinutesPerDay + minute + tzOffset

toLocalDateTimeParts(iso) ==
  LET local == iso - tzOffset
  IN [dateValue |-> local \div MinutesPerDay,
      timeValue |-> local % MinutesPerDay]

toLocalDate(iso) ==
  LET local == iso - tzOffset
  IN [dateValue |-> local \div MinutesPerDay,
      timeValue |-> local % MinutesPerDay]

(* A dateTime string as a payload carries it: the date and time it spells
   and its zone designator, "Z" or none. *)
DateTimeString(dateValue, timeValue, zone) ==
  [dateValue |-> dateValue, timeValue |-> timeValue, zone |-> zone]

(* page.tsx: `${dateValue}T${timeValue}:00`, the form's wall-clock parts with
   no zone designator. *)
toIsoFromDateTimeParts(dateValue, timeValue) ==
  DateTimeString(dateValue, timeValue, "")

(* Date.prototype.toISOString(): the UTC parts of the instant, with "Z". *)
toISOString(instant) ==
  DateTimeString(instant \div MinutesPerDay, instant % MinutesPerDay, "Z")

(* layout.tsx onSubmit: new Date(`${selectedDate}T${selectedSlot}:00`).toISOString() *)
agendaDateTime(dateValue, slot) == toISOString(LocalInstant(dateValue, slot))

(* The instant the server stores for a dateTime string: the one it names
   when it carries "Z"; without a designator the string is wall-clock time
   of whatever zone the server reads it in, `serverOffset` minutes behind UTC. *)
PersistedInstant(str, serverOffset) ==
  str.dateValue * MinutesPerDay + str.timeValue
    + (IF str.zone = "Z" THEN 0 ELSE serverOffset)

(* The UTC calendar day of an instant: what the server's
   dateTime >= dT00:00:00.000Z /\ dateTime <= dT23:59:59.999Z selects. *)
UtcDay(iso) == iso \div MinutesPerDay

----------------------------------------------------------------------------
(* Sequences *)

RECURSIVE findIndexFrom(_, _, _)
findIndexFrom(s, id, i) ==
  IF i > Len(s) THEN 0
  ELSE IF s[i].id = id THEN i
  ELSE findIndexFrom(s, id, i + 1)

(* A search that finds nothing. *)
findIndexNever(s, id) == 0

(* Array.prototype.findIndex(item => item.id === id); 0 stands for -1. *)
findIndex(s, id) == findIndexFrom(s, id, 1)

(* A filter that drops nothing. *)
WithoutIdKeep(s, id) == s

(* prev.filter(item => item.id !== id) *)
WithoutId(s, id) == SelectSeq(s, LAMBDA item : item.id # id)

(* Insert x into a descending sequence behind every entry that is not
   later-first, i.e. behind its ties: the stable order of Array.prototype.sort. *)
RECURSIVE InsertDesc(_, _)
InsertDesc(x, s) ==
  IF s = <<>> THEN <<x>>
  ELSE IF Head(s).dateTime >= x.dateTime THEN <<Head(s)>> \o InsertDesc(x, Tail(s))
  ELSE <<x>> \o s

RECURSIVE SortDescFrom(_, _)
SortDescFrom(acc, s) ==
  IF s = <<>> THEN acc ELSE SortDescFrom(InsertDesc(Head(s), acc), Tail(s))

(* A sort that leaves the order as it finds it. *)
SortDescNone(s) == s

(* next.sort((a, b) => new Date(b.dateTime).getTime() - new Date(a.dateTime).getTime())
   : descending by instant, entries of equal instant keep their order. *)
SortDesc(s) == SortDescFrom(<<>>, s)

(* A slice that cuts nothing. *)
SliceAll(s, n) == s

(* Array.prototype.slice(0, n) *)
Slice(s, n) == IF Len(s) <= n THEN s ELSE SubSeq(s, 1, n)

Ids(s) == {s[i].id : i \in 1..Len(s)}
DistinctIds(s) == \A i, j \in 1..Len(s) : s[i].id = s[j].id => i = j

----------------------------------------------------------------------------
(* List view: the filter predicate, on the client and in the query *)

NoFilters ==
  [creator |-> NoFilter, assignee |-> NoFilter, doctor |-> NoFilter,
   clinic |-> NoFilter, date |-> NoDate, scanned |-> "", status |-> ""]

FilterFields == {"creator", "assignee", "doctor", "clinic", "date", "scanned", "status"}

(* String(Boolean(scan.isScanned)) *)
BoolString(b) == IF b THEN "true" ELSE "false"

(* A predicate that applies the filter cells alike to every role. *)
matchesFiltersAnyone(scan, f) ==
  /\ (f.creator # NoFilter => scan.createdBy = f.creator)
  /\ (f.assignee # NoFilter => scan.assignedTo = f.assignee)
  /\ (f.doctor # NoFilter => scan.doctor = f.doctor)
  /\ (f.clinic # NoFilter => scan.clinic = f.clinic)
  /\ (f.date # NoDate => toLocalDateTimeParts(scan.dateTime).dateValue = f.date)
  /\ (f.scanned # "" => BoolString(scan.isScanned) = f.scanned)
  /\ (f.status # "" => scan.status = f.status)

(* The closure of the socket effect: it is recreated whenever a filter cell
   changes, so it reads the filter cells of the render it belongs to. *)
matchesFilters(scan, f) ==
  /\ (isScanner /\ authId # NoUser => scan.assignedTo = authId)
  /\ (f.creator # NoFilter => scan.createdBy = f.creator)
  /\ (f.assignee # NoFilter => scan.assignedTo = f.assignee)
  /\ (f.doctor # NoFilter => scan.doctor = f.doctor)
  /\ (f.clinic # NoFilter => scan.clinic = f.clinic)
  /\ (f.date # NoDate => toLocalDateTimeParts(scan.dateTime).dateValue = f.date)
  /\ (f.scanned # "" => BoolString(scan.isScanned) = f.scanned)
  /\ (f.status # "" => scan.status = f.status)

(* The query string of the render: page, limit and the filter triples. *)
buildQuery == [page |-> page, limit |-> limit, filters |-> filters]

NoQuery == [page |-> 1, limit |-> DefaultLimit, filters |-> NoFilters]

(* What the filter triples of a query select on the server. *)
QuerySelects(scan, q) ==
  /\ (isScanner /\ authId # NoUser => scan.assignedTo = authId)
  /\ (q.filters.creator # NoFilter => scan.createdBy = q.filters.creator)
  /\ (q.filters.assignee # NoFilter => scan.assignedTo = q.filters.assignee)
  /\ (q.filters.doctor # NoFilter => scan.doctor = q.filters.doctor)
  /\ (q.filters.clinic # NoFilter => scan.clinic = q.filters.clinic)
  /\ (q.filters.date # NoDate => UtcDay(scan.dateTime) = q.filters.date)
  /\ (q.filters.scanned # "" => BoolString(scan.isScanned) = q.filters.scanned)
  /\ (q.filters.status # "" => scan.status = q.filters.status)

----------------------------------------------------------------------------
(* The Event Reconciler *)

(* A normaliser that trusts the payload's assignee. *)
normalizeScanKeep(action, scan) == scan

normalizeScan(action, scan) ==
  IF action = "unassigned" THEN [scan EXCEPT !.assignedTo = NoUser] ELSE scan

EventNames ==
  {"scans.created", "scans.updated", "scans.assigned", "scans.unassigned",
   "scans.scanned", "scans.event"}
EnvelopeActions == {"created", "updated", "assigned", "unassigned", "scanned"}

(* The scan each socket.on handler hands to applyScanUpdate. *)
EventScan(name, action, scan) ==
  IF name = "scans.event" THEN normalizeScan(action, scan)
  ELSE IF name = "scans.unassigned" THEN [scan EXCEPT !.assignedTo = NoUser]
  ELSE scan

IsUnassignedEvent(name, action) ==
  \/ name = "scans.unassigned"
  \/ name = "scans.event" /\ action = "unassigned"

(* Which branch of applyScanUpdate an update takes. *)
UpdatePath(prev, id, shouldInclude) ==
  IF ~shouldInclude
  THEN (IF findIndex(prev, id) = 0 THEN "noop" ELSE "remove")
  ELSE (IF findIndex(prev, id) = 0 THEN "insert" ELSE "replace")

listApplyInsert(prev, scan, lim) == Slice(SortDesc(<<scan>> \o prev), lim)

(* A replace path that keeps the entry it has. *)
listApplyReplaceNone(prev, scan, index) == prev

listApplyReplace(prev, scan, index) == SortDesc([prev EXCEPT ![index] = scan])

(* page.tsx applyScanUpdate: the setScans updater. *)
listApplyScanUpdate(prev, scan, f, lim) ==
  LET index == findIndex(prev, scan.id)
      shouldInclude == matchesFilters(scan, f)
  IN IF ~shouldInclude
     THEN (IF index = 0 THEN prev ELSE WithoutId(prev, scan.id))
     ELSE IF index = 0 THEN listApplyInsert(prev, scan, lim)
     ELSE listApplyReplace(prev, scan, index)

(* layout.tsx applyScanUpdate reads selectedDateRef.current, which the effect
   on selectedDate keeps equal to selectedDate. *)
matchesDate(scan, refDate) == toLocalDate(scan.dateTime).dateValue = refDate

(* An updater that moves a replaced entry to the front. *)
agendaApplyScanUpdateFront(prev, scan, refDate) ==
  IF ~matchesDate(scan, refDate) THEN WithoutId(prev, scan.id)
  ELSE <<scan>> \o WithoutId(prev, scan.id)

agendaApplyScanUpdate(prev, scan, refDate) ==
  LET index == findIndex(prev, scan.id)
  IN IF ~matchesDate(scan, refDate)
     THEN (IF index = 0 THEN prev ELSE WithoutId(prev, scan.id))
     ELSE IF index = 0 THEN <<scan>> \o prev
     ELSE [prev EXCEPT ![index] = scan]

(* The predicate of the mounted view. *)
ActivePredicate(scan) ==
  IF view = "list" THEN matchesFilters(scan, filters) ELSE matchesDate(scan, selectedDate)

----------------------------------------------------------------------------
(* The Slot Calendar Generator *)

EpochWeekday == 5   \* day 0 of the model is a Friday; 0 is Sunday, as getDay()

(* new Date(`${dateValue}T00:00:00`).getDay() *)
getDay(dateValue) ==
  IF dateValue = MalformedDate THEN NotANumber ELSE (dateValue + EpochWeekday) % 7

startMinutes == 8 * 60
endMinutes(isSaturday) == IF isSaturday THEN 13 * 60 + 30 ELSE 19 * 60 + 30

(* A count that leaves the closing time out. *)
totalSlotsExclusive(isSaturday) == (endMinutes(isSaturday) - startMinutes) \div 30

totalSlots(isSaturday) == ((endMinutes(isSaturday) - startMinutes) \div 30) + 1

(* The value of the slot at `index` (from 0): hour24 and minute put back
   together as a minute of the day. *)
SlotValue(index) ==
  LET totalMinutes == startMinutes + index * 30
      hour24 == totalMinutes \div 60
      minute == IF totalMinutes % 60 = 0 THEN 0 ELSE 30
  IN hour24 * 60 + minute

(* A generator that works on Sundays as on any other day. *)
SlotsOfDayAlways(day) == [i \in 1..totalSlots(day = 6) |-> SlotValue(i - 1)]

SlotsOfDay(day) ==
  IF day = 0 THEN <<>>
  ELSE [i \in 1..totalSlots(day = 6) |-> SlotValue(i - 1)]

(* page.tsx buildWorkingTimeOptions: the values of the options, in order. *)
buildWorkingTimeOptions(dateValue) ==
  IF dateValue = NoDate THEN <<>> ELSE SlotsOfDay(getDay(dateValue))

(* layout.tsx buildWorkingSlots *)
buildWorkingSlots(dateValue) ==
  IF dateValue = NoDate THEN <<>> ELSE SlotsOfDay(getDay(dateValue))

Range(s) == {s[i] : i \in 1..Len(s)}

----------------------------------------------------------------------------
(* Forms *)

NoScan ==
  [id |-> 0, dateTime |-> 0, createdBy |-> NoUser, assignedTo |-> NoUser,
   doctor |-> 0, clinic |-> 0, isScanned |-> FALSE, status |-> "unconfirmed"]

defaultFormState ==
  [dateValue |-> NoDate, timeValue |-> NoTime, createdById |-> NoUser,
   assignedToId |-> NoUser, requestedByDoctorId |-> 0]

defaultForm == [doctorId |-> 0, assignedToId |-> NoUser]

(* The memo over formState.dateValue. *)
timeOptions == Range(buildWorkingTimeOptions(formState.dateValue))

(* The memo over selectedDate. *)
timeSlots == Range(buildWorkingSlots(selectedDate))

(* layout.tsx slotsByTime.get(slot): the appointments of the Store that are
   not cancelled and whose local date and time are selectedDate and slot. *)
slotScans(slot) ==
  {i \in 1..Len(scans) :
     /\ scans[i].status # "cancelled"
     /\ toLocalDate(scans[i].dateTime).dateValue = selectedDate
     /\ toLocalDate(scans[i].dateTime).timeValue = slot}

(* Effects that leave the chosen time alone. *)
InvalidateTimeNever(fs, occupied) == fs

(* The two effects that clear a chosen time that is occupied or is not one of
   the options of the chosen date. *)
InvalidateTime(fs, occupied) ==
  IF /\ fs.timeValue # NoTime
     /\ \/ fs.timeValue \in occupied
        \/ fs.timeValue \notin Range(buildWorkingTimeOptions(fs.dateValue))
  THEN [fs EXCEPT !.timeValue = NoTime]
  ELSE fs

BadToken == -1   \* a token that does not split into hour and minute

(* page.tsx mapUtcSlotsToLocal: each "HH:MM" of the server's clock on
   dateValue as the viewer's wall-clock minute; tokens that do not come out
   as five characters are dropped, and with a date that gives no year, month
   and day every token comes out as "NaN:NaN". *)
mapUtcSlotsToLocal(slots, dateValue) ==
  IF dateValue = MalformedDate THEN {}
  ELSE {(dateValue * MinutesPerDay + t - tzOffset) % MinutesPerDay :
          t \in {u \in slots : u # BadToken}}

----------------------------------------------------------------------------
(* Requests awaiting their response *)

Request(kind, origin, op, id, query, date, time) ==
  [kind |-> kind, origin |-> origin, op |-> op, id |-> id, query |-> query,
   date |-> date, time |-> time, actor |-> NoUser]

(* page.tsx loadScans(): GET /scans?<buildQuery()>; origin is the caller that
   awaits it: the load effect, the refresh callback or a write handler. *)
ListLoad(origin, q) == Request("load", origin, "", 0, q, NoDate, NoTime)

(* layout.tsx loadScans(dateValue): GET /scans/by-date?date=<dateValue> *)
AgendaLoad(origin, date) == Request("load", origin, "", 0, NoQuery, date, NoTime)

(* GET /scans/occupied-slots?date=<date>[&excludeScanId=<id>] *)
OccupiedFetch(date, excludeId) ==
  Request("occupied", "", "", excludeId, NoQuery, date, NoTime)

InFlight == BagToSet(inflight)
RoomFor(n) == BagCardinality(inflight) + n <= MaxInFlight
Room == RoomFor(1)
Send(bag, req) == bag (+) SetToBag({req})
Settle(bag, req) == bag (-) SetToBag({req})
Loads == {r \in InFlight : r.kind = "load"}
Writes == {r \in InFlight : r.kind = "write"}

ServerMessage == "server message"

(* The value of `last` after a handler other than a push event. *)
Did(op) ==
  [op |-> op, path |-> "", id |-> 0, scan |-> NoScan, unassigned |-> FALSE,
   forced |-> FALSE]

(* The same for a handler that acts on one appointment: what it was asked to
   do and the id it was asked to do it to. *)
Attempt(op, what, id) == [Did(op) EXCEPT !.path = what, !.id = id]

----------------------------------------------------------------------------
(* What the server may answer to a load: appointments with distinct ids, in
   the server's order, at most `n` of them. *)

RECURSIVE PagesOver(_, _)
PagesOver(payloads, n) ==
  IF n = 0 THEN {<<>>}
  ELSE LET shorter == PagesOver(payloads, n - 1)
       IN shorter \cup
          {Append(s, x) : s \in {t \in shorter : Len(t) = n - 1}, x \in payloads}

ServerPages(payloads, n) == {s \in PagesOver(payloads, n) : DistinctIds(s)}

ListPages(payloads, q) ==
  ServerPages({x \in payloads : QuerySelects(x, q)}, q.limit)

----------------------------------------------------------------------------
(* Which controls can be operated.  LoadingOverlay and Modal are fixed
   full-screen layers of the same z-index, so the one later in the document
   is on top: the page lies under the overlay while busy and under any open
   modal; the form modal and the "Filtros" modal lie over the overlay; the
   time picker lies over the form. *)

ListPageReachable == ~isBusy /\ ~showForm /\ ~showFilters
FormReachable == showForm /\ ~showTimePicker /\ ~showFilters
FilterControlsReachable == showFilters \/ ListPageReachable
AgendaPageReachable == ~isLoading /\ ~showCreate /\ ~showManage

Fits(bag) == BagCardinality(bag) <= MaxInFlight

----------------------------------------------------------------------------
(* The push connection of the mounted view *)

(* io(SOCKET_URL, ...) of an effect instance, with what its handlers close
   over: the filter cells and the page size of the render in the list view,
   nothing but the ref of the selected date in the agenda. *)
Socket(f, lim) == [filters |-> f, limit |-> lim]

AgendaSocket == Socket(NoFilters, 0)

(* The effect's cleanup: socket.disconnect() on the socket the instance
   opened, the newest one. *)
socketCleanup(socks) == SubSeq(socks, 1, Len(socks) - 1)

(* An effect with no deps: it runs on mount and not again. *)
RunSocketEffectOnce(socks, f, lim) == socks

(* The socket effect of the list view as it runs after a render that changed
   one of its deps: the cleanup of the previous instance, then a new socket. *)
RunSocketEffect(socks, f, lim) == Append(socketCleanup(socks), Socket(f, lim))

(* The event reaches every open connection; each one's handler runs its
   applyScanUpdate on the Store the previous one left. *)
RECURSIVE Deliver(_, _, _, _)
Deliver(prev, socks, update, refDate) ==
  IF socks = <<>> THEN prev
  ELSE Deliver(IF view = "list"
               THEN listApplyScanUpdate(prev, update, Head(socks).filters, Head(socks).limit)
               ELSE agendaApplyScanUpdate(prev, update, refDate),
               Tail(socks), update, refDate)

----------------------------------------------------------------------------
(* List view: handlers of the read path *)

(* The load effect (page.tsx, deps page, limit and the filter cells) as it
   runs after a render that changed one of them. *)
RunLoadEffect(bag, q) == Send(bag, ListLoad("effect", q))

(* onChange of a filter control: setXFilter(value); setPage(1). *)
OnFilterChange(field, value) ==
  /\ view = "list"
  /\ FilterControlsReachable
  /\ filters[field] # value
  /\ Room
  /\ filters' = [filters EXCEPT ![field] = value]
  /\ page' = 1
  /\ isBusy' = TRUE
  /\ error' = NoError
  /\ inflight' = RunLoadEffect(inflight, [page |-> 1, limit |-> limit, filters |-> filters'])
  /\ sockets' = RunSocketEffect(sockets, filters', limit)
  /\ last' = Did("filter")
  /\ UNCHANGED <<envVars, referenceLoads, showFilters, scans, limit, pageCount, agendaVars, formVars, modalVars>>

(* onChange of the page-size select: setLimit(value); setPage(1). *)
OnLimitChange(value) ==
  /\ view = "list"
  /\ FilterControlsReachable
  /\ limit # value
  /\ Room
  /\ limit' = value
  /\ page' = 1
  /\ isBusy' = TRUE
  /\ error' = NoError
  /\ inflight' = RunLoadEffect(inflight, [page |-> 1, limit |-> value, filters |-> filters])
  /\ sockets' = RunSocketEffect(sockets, filters, value)
  /\ last' = Did("limit")
  /\ UNCHANGED <<envVars, referenceLoads, showFilters, scans, filters, pageCount, agendaVars, formVars, modalVars>>

(* "Anterior" / "Siguiente": disabled while busy or at the end of the range. *)
OnPageChange(delta) ==
  /\ view = "list"
  /\ ListPageReachable
  /\ ~isBusy
  /\ IF delta < 0 THEN page > 1 ELSE page < pageCount
  /\ Room
  /\ page' = page + delta
  /\ isBusy' = TRUE
  /\ error' = NoError
  /\ inflight' = RunLoadEffect(inflight, [page |-> page', limit |-> limit, filters |-> filters])
  /\ last' = Did("page")
  /\ UNCHANGED <<envVars, sockets, referenceLoads, showFilters, scans, filters, limit, pageCount, agendaVars, formVars, modalVars>>

(* loadUsers(), loadDoctors() or loadClinics() of a render whose
   formState.createdById is `creator`; only loadUsers reads it. *)
ReferenceLoad(what, creator) ==
  [what |-> what, creator |-> IF what = "users" THEN creator ELSE NoUser]

(* The calls of the mount effect, which belong to the first render. *)
MountReferences(v) ==
  {ReferenceLoad(what, NoUser) :
     what \in (IF v = "list" THEN {"users", "doctors", "clinics"}
               ELSE {"doctors", "users"})}

(* The callback registered with the refresh context: Promise.all of
   loadUsers(), loadDoctors(), loadClinics() and loadScans() with the query of
   the current render; it does not touch isBusy or error. *)
OnRefresh ==
  /\ view = "list"
  /\ ListPageReachable
  /\ \A r \in Loads : r.origin # "refresh"
  /\ Room
  /\ inflight' = Send(inflight, ListLoad("refresh", buildQuery))
  /\ referenceLoads' = referenceLoads \cup
        {ReferenceLoad(what, formState.createdById) :
           what \in {"users", "doctors", "clinics"}}
  /\ last' = Did("refresh")
  /\ UNCHANGED <<envVars, sockets, showFilters, scans, error, listVars, agendaVars, formVars, modalVars>>

(* loadScans() resolves: setScans(list), setPage/setPageCount from the
   pagination of the response; then the caller's finally.  A page that
   differs from the page cell re-runs the load effect. *)
ListLoadOk(req, list, pc) ==
  /\ view = "list"
  /\ req \in Loads
  /\ scans' = list
  /\ page' = req.query.page
  /\ pageCount' = pc
  /\ IF page' # page
     THEN /\ isBusy' = TRUE
          /\ error' = NoError
          /\ inflight' = RunLoadEffect(Settle(inflight, req),
                            [page |-> page', limit |-> limit, filters |-> filters])
     ELSE /\ isBusy' = (IF req.origin = "refresh" THEN isBusy ELSE FALSE)
          /\ error' = error
          /\ inflight' = Settle(inflight, req)
  /\ last' = Did("load.ok")
  /\ UNCHANGED <<envVars, sockets, referenceLoads, showFilters, filters, limit, agendaVars, formVars, modalVars>>

(* loadScans() rejects: the load effect and the write handlers catch it and
   set error; the refresh callback has no catch. *)
ListLoadFail(req) ==
  /\ view = "list"
  /\ req \in Loads
  /\ inflight' = Settle(inflight, req)
  /\ error' = (IF req.origin = "refresh" THEN error ELSE ServerMessage)
  /\ isBusy' = (IF req.origin = "refresh" THEN isBusy ELSE FALSE)
  /\ last' = Did("load.fail")
  /\ UNCHANGED <<envVars, sockets, referenceLoads, showFilters, scans, filters, page, limit, pageCount, agendaVars, formVars, modalVars>>

(* A reference load resolves: the list it carries feeds the selects; in the
   list view loadUsers, when the form of its render named no creator and the
   stored record gives an id, also writes that id into the form. *)
ReferenceOk(r) ==
  /\ view \in {"list", "agenda"}
  /\ r \in referenceLoads
  /\ referenceLoads' = referenceLoads \ {r}
  /\ formState' = (IF view = "list" /\ r.what = "users" /\ r.creator = NoUser
                                    /\ authId # NoUser
                   THEN [formState EXCEPT !.createdById = authId]
                   ELSE formState)
  /\ last' = Attempt("reference.ok", r.what, 0)
  /\ UNCHANGED <<envVars, sockets, showFilters, scans, error, inflight, listVars,
                 editingScan, showForm, showTimePicker, occupiedSlots, occupiedError,
                 isSlotsLoading, agendaVars, modalVars>>

(* A reference load rejects: neither the mount effect, which calls it with
   `void`, nor the refresh callback and its caller have a catch. *)
ReferenceFail(r) ==
  /\ view \in {"list", "agenda"}
  /\ r \in referenceLoads
  /\ referenceLoads' = referenceLoads \ {r}
  /\ last' = Attempt("reference.fail", r.what, 0)
  /\ UNCHANGED <<envVars, sockets, showFilters, scans, error, inflight, listVars,
                 formVars, agendaVars, modalVars>>

----------------------------------------------------------------------------
(* Agenda view: handlers of the read path *)

(* onChangeDate: new Date(`${selectedDate}T00:00:00`) is local midnight;
   setDate(+delta); toISOString().slice(0, 10) is the UTC day of that instant. *)
ChangedDate(date, delta) == (LocalInstant(date + delta, 0)) \div MinutesPerDay

(* The previous-day and next-day buttons.  When the date comes out as the one
   already selected the cell does not change and no effect runs. *)
OnChangeDate(delta) ==
  /\ view = "agenda"
  /\ AgendaPageReachable
  /\ ~isLoading
  /\ ChangedDate(selectedDate, delta) \in Days
  /\ selectedDate' = ChangedDate(selectedDate, delta)
  /\ IF selectedDate' # selectedDate
     THEN /\ Room
          /\ isLoading' = TRUE
          /\ error' = NoError
          /\ inflight' = Send(inflight, AgendaLoad("effect", selectedDate'))
     ELSE UNCHANGED <<isLoading, error, inflight>>
  /\ last' = Attempt("date", IF delta > 0 THEN "next" ELSE "previous", 0)
  /\ UNCHANGED <<envVars, sockets, referenceLoads, showFilters, scans, listVars, formVars, modalVars>>

AgendaLoadOk(req, list) ==
  /\ view = "agenda"
  /\ req \in Loads
  /\ scans' = list
  /\ isLoading' = FALSE
  /\ inflight' = Settle(inflight, req)
  /\ last' = Did("load.ok")
  /\ UNCHANGED <<envVars, sockets, referenceLoads, showFilters, error, listVars, selectedDate, formVars, modalVars>>

(* catch: setError(message); setScans([]) *)
AgendaLoadFail(req) ==
  /\ view = "agenda"
  /\ req \in Loads
  /\ scans' = <<>>
  /\ error' = ServerMessage
  /\ isLoading' = FALSE
  /\ inflight' = Settle(inflight, req)
  /\ last' = Did("load.fail")
  /\ UNCHANGED <<envVars, sockets, referenceLoads, showFilters, listVars, selectedDate, formVars, modalVars>>

----------------------------------------------------------------------------
(* A push event arrives: the socket.on handler of `name` runs on every open
   connection. *)

(* A handler that also brings the snapshot of the open modal up to date. *)
OnSocketEventSyncing(name, action, scan) ==
  LET update == EventScan(name, action, scan)
  IN /\ sockets # <<>>
     /\ scans' = Deliver(scans, sockets, update, selectedDate)
     /\ selectedScan' = (IF selectedScan.id = update.id THEN update ELSE selectedScan)
     /\ last' = [op |-> "push",
                 path |-> UpdatePath(scans, update.id, ActivePredicate(update)),
                 id |-> update.id,
                 scan |-> update,
                 unassigned |-> IsUnassignedEvent(name, action),
                 forced |-> IsUnassignedEvent(name, action) /\ scan.assignedTo # NoUser]
     /\ UNCHANGED <<envVars, sockets, referenceLoads, showFilters, error, inflight, listVars, agendaVars,
                    formVars, showCreate, showManage, createForm, selectedSlot>>

OnSocketEvent(name, action, scan) ==
  LET update == EventScan(name, action, scan)
  IN /\ sockets # <<>>
     /\ scans' = Deliver(scans, sockets, update, selectedDate)
     /\ last' = [op |-> "push",
                 path |-> UpdatePath(scans, update.id, ActivePredicate(update)),
                 id |-> update.id,
                 scan |-> update,
                 unassigned |-> IsUnassignedEvent(name, action),
                 forced |-> IsUnassignedEvent(name, action) /\ scan.assignedTo # NoUser]
     /\ UNCHANGED <<envVars, sockets, referenceLoads, showFilters, error, inflight, listVars, agendaVars,
                    formVars, modalVars>>

----------------------------------------------------------------------------
(* List view: the booking form *)

(* The cells fetchOccupiedSlots writes, as one record. *)
Occupancy ==
  [occupied |-> occupiedSlots, err |-> occupiedError,
   loading |-> isSlotsLoading, bag |-> inflight]

(* fetchOccupiedSlots() of a render whose formState.dateValue is `date` and
   whose editingScan?.id is `excludeId`, up to its await. *)
fetchOccupiedSlots(st, date, excludeId) ==
  IF date = NoDate
  THEN [st EXCEPT !.occupied = {}, !.err = NoError]
  ELSE [st EXCEPT !.err = NoError, !.loading = TRUE,
                  !.bag = Send(@, OccupiedFetch(date, excludeId))]

(* The effect with deps [formState.dateValue, editingScan?.id]. *)
FetchEffect(st, fs, editing) ==
  IF fs.dateValue = formState.dateValue /\ editing.id = editingScan.id
  THEN st
  ELSE fetchOccupiedSlots(st, fs.dateValue, editing.id)

(* The form cells after the effects of a render have settled. *)
FormSettles(st, fs) ==
  /\ Fits(st.bag)
  /\ occupiedSlots' = st.occupied
  /\ occupiedError' = st.err
  /\ isSlotsLoading' = st.loading
  /\ inflight' = st.bag
  /\ formState' = InvalidateTime(fs, st.occupied)

(* "Nuevo escaneo" *)
OnOpenCreate ==
  /\ view = "list"
  /\ isAdmin /\ ~isBusy /\ ListPageReachable
  /\ LET fs == [defaultFormState EXCEPT !.createdById = authId]
         st == [Occupancy EXCEPT !.occupied = {}, !.err = NoError, !.loading = FALSE]
     IN FormSettles(FetchEffect(st, fs, NoScan), fs)
  /\ editingScan' = NoScan
  /\ showForm' = TRUE
  /\ showTimePicker' = FALSE
  /\ last' = Did("openCreate")
  /\ UNCHANGED <<envVars, sockets, referenceLoads, showFilters, scans, error, listVars, agendaVars, modalVars>>

(* "Editar" on a row of the Store: rendered for an administrator when the
   row is neither scanned nor cancelled. *)
OnEdit(i) ==
  /\ view = "list"
  /\ isAdmin /\ ~isBusy /\ ListPageReachable
  /\ i \in 1..Len(scans)
  /\ ~scans[i].isScanned /\ scans[i].status # "cancelled"
  /\ LET scan == scans[i]
         parts == toLocalDateTimeParts(scan.dateTime)
         fs == [dateValue |-> parts.dateValue, timeValue |-> parts.timeValue,
                createdById |-> scan.createdBy, assignedToId |-> scan.assignedTo,
                requestedByDoctorId |-> scan.doctor]
         st == [Occupancy EXCEPT !.err = NoError, !.loading = FALSE]
     IN /\ FormSettles(FetchEffect(st, fs, scan), fs)
        /\ editingScan' = scan
  /\ showForm' = TRUE
  /\ showTimePicker' = FALSE
  /\ last' = Did("edit")
  /\ UNCHANGED <<envVars, sockets, referenceLoads, showFilters, scans, error, listVars, agendaVars, modalVars>>

(* The Modal's "Cerrar" (never disabled) and "Cancelar edicion". *)
OnCancel ==
  /\ view = "list"
  /\ FormReachable
  /\ LET st == [Occupancy EXCEPT !.occupied = {}, !.err = NoError, !.loading = FALSE]
     IN FormSettles(FetchEffect(st, defaultFormState, NoScan), defaultFormState)
  /\ editingScan' = NoScan
  /\ showForm' = FALSE
  /\ showTimePicker' = FALSE
  /\ showFilters' = FALSE
  /\ last' = Did("cancel")
  /\ UNCHANGED <<envVars, sockets, referenceLoads, scans, error, listVars, agendaVars, modalVars>>

(* onChange of the date input: setFormState(dateValue); with a date chosen
   the picker opens and fetchOccupiedSlots() of the render that is on screen
   runs (it still reads the previous dateValue); the effect on the new
   dateValue follows. *)
OnDateInput(nextValue) ==
  /\ view = "list"
  /\ FormReachable
  /\ nextValue # formState.dateValue
  /\ LET fs == [formState EXCEPT !.dateValue = nextValue]
         st == IF nextValue # NoDate
               THEN fetchOccupiedSlots(Occupancy, formState.dateValue, editingScan.id)
               ELSE Occupancy
     IN FormSettles(FetchEffect(st, fs, editingScan), fs)
  /\ showTimePicker' = (IF nextValue # NoDate THEN TRUE ELSE showTimePicker)
  /\ last' = Did("dateInput")
  /\ UNCHANGED <<envVars, sockets, referenceLoads, showFilters, scans, error, listVars, editingScan, showForm,
                 agendaVars, modalVars>>

(* "Seleccionar hora" / "Cambiar hora" *)
OnOpenTimePicker ==
  /\ view = "list"
  /\ FormReachable
  /\ formState.dateValue # NoDate /\ ~isBusy
  /\ FormSettles(fetchOccupiedSlots(Occupancy, formState.dateValue, editingScan.id),
                 formState)
  /\ showTimePicker' = TRUE
  /\ last' = Did("openPicker")
  /\ UNCHANGED <<envVars, sockets, referenceLoads, showFilters, scans, error, listVars, editingScan, showForm,
                 agendaVars, modalVars>>

(* The picker's "Cerrar" *)
OnCloseTimePicker ==
  /\ view = "list"
  /\ showForm /\ showTimePicker /\ ~isBusy
  /\ showTimePicker' = FALSE
  /\ last' = Did("closePicker")
  /\ UNCHANGED <<envVars, sockets, referenceLoads, showFilters, scans, error, inflight, listVars, formState, editingScan,
                 showForm, occupiedSlots, occupiedError, isSlotsLoading,
                 agendaVars, modalVars>>

(* A picker that takes every slot for free. *)
isOccupiedNever(value) == FALSE

(* const isOccupied = occupiedSlots.includes(option.value) *)
isOccupied(value) == value \in occupiedSlots

(* A slot button of the picker: rendered for each option once the slots are
   not loading, disabled when occupied or busy. *)
OnPickSlot(value) ==
  /\ view = "list"
  /\ showForm /\ showTimePicker /\ ~isSlotsLoading
  /\ value \in timeOptions
  /\ ~isOccupied(value) /\ ~isBusy
  /\ FormSettles(Occupancy, [formState EXCEPT !.timeValue = value])
  /\ showTimePicker' = FALSE
  /\ last' = Did("pickSlot")
  /\ UNCHANGED <<envVars, sockets, referenceLoads, showFilters, scans, error, listVars, editingScan, showForm,
                 agendaVars, modalVars>>

(* The assignee and doctor selects of the form. *)
OnFormField(field, value) ==
  /\ view = "list"
  /\ FormReachable /\ ~isBusy
  /\ field \in {"assignedToId", "requestedByDoctorId"}
  /\ formState[field] # value
  /\ formState' = [formState EXCEPT ![field] = value]
  /\ last' = Did("field")
  /\ UNCHANGED <<envVars, sockets, referenceLoads, showFilters, scans, error, inflight, listVars, editingScan, showForm,
                 showTimePicker, occupiedSlots, occupiedError, isSlotsLoading,
                 agendaVars, modalVars>>

(* The occupied-slots request resolves. *)
OccupiedOk(req, tokens) ==
  /\ view = "list"
  /\ req \in InFlight /\ req.kind = "occupied"
  /\ LET st == [Occupancy EXCEPT !.occupied = mapUtcSlotsToLocal(tokens, req.date),
                                 !.loading = FALSE, !.bag = Settle(@, req)]
     IN FormSettles(st, formState)
  /\ last' = Did("occupied.ok")
  /\ UNCHANGED <<envVars, sockets, referenceLoads, showFilters, scans, error, listVars, editingScan, showForm,
                 showTimePicker, agendaVars, modalVars>>

(* A catch that empties the occupied set and says nothing. *)
OccupiedFailSilent(req) ==
  /\ view = "list"
  /\ req \in InFlight /\ req.kind = "occupied"
  /\ LET st == [Occupancy EXCEPT !.occupied = {},
                                 !.loading = FALSE, !.bag = Settle(@, req)]
     IN FormSettles(st, formState)
  /\ last' = Did("occupied.fail")
  /\ UNCHANGED <<envVars, sockets, referenceLoads, showFilters, scans, error, listVars, editingScan, showForm,
                 showTimePicker, agendaVars, modalVars>>

(* The occupied-slots request rejects. *)
OccupiedFail(req) ==
  /\ view = "list"
  /\ req \in InFlight /\ req.kind = "occupied"
  /\ LET st == [Occupancy EXCEPT !.occupied = {}, !.err = ServerMessage,
                                 !.loading = FALSE, !.bag = Settle(@, req)]
     IN FormSettles(st, formState)
  /\ last' = Did("occupied.fail")
  /\ UNCHANGED <<envVars, sockets, referenceLoads, showFilters, scans, error, listVars, editingScan, showForm,
                 showTimePicker, agendaVars, modalVars>>

----------------------------------------------------------------------------
(* List view: writes *)

DateTimeRequired == "La fecha y hora son obligatorias."
DoctorRequired == "Selecciona el doctor solicitante."
CreatorRequired == "No se detecto el usuario creador."
CannotCancelScanned == "No se puede cancelar un escaneo que ya esta escaneado."

(* POST /scans, PATCH /scans/:id; `query` is the buildQuery() of the render
   whose handler awaits the request and reloads after it. *)
ListWrite(origin, op, id, date, time) ==
  Request("write", origin, op, id, buildQuery, date, time)

(* payload.dateTime of a create or edit request: the list view's form sends
   its parts as they are, the agenda's form sends the instant they name on
   the viewer's clock. *)
payloadDateTime(req) ==
  IF req.origin = "agenda" THEN agendaDateTime(req.date, req.time)
  ELSE toIsoFromDateTimeParts(req.date, req.time)

(* A submit handler that checks nothing. *)
listValidationNone(fs) == NoError

(* The checks at the head of onSubmit's try block, in their order: the
   message of the Error thrown, or NoError when the payload is built. *)
listValidation(fs) ==
  IF fs.dateValue = NoDate \/ fs.timeValue = NoTime THEN DateTimeRequired
  ELSE IF fs.createdById = NoUser /\ authId = NoUser THEN CreatorRequired
  ELSE IF fs.requestedByDoctorId = 0 THEN DoctorRequired
  ELSE NoError

(* The form's submit button; the browser does not fire the submit event
   while the date input, which is `required`, is empty. *)
OnSubmit ==
  /\ view = "list"
  /\ FormReachable /\ ~isBusy
  /\ formState.dateValue # NoDate
  /\ IF listValidation(formState) # NoError
     THEN /\ error' = listValidation(formState)
          /\ isBusy' = FALSE
          /\ UNCHANGED inflight
     ELSE /\ Room
          /\ error' = NoError
          /\ isBusy' = TRUE
          /\ inflight' = Send(inflight,
                ListWrite("submit", IF editingScan # NoScan THEN "edit" ELSE "create",
                          editingScan.id, formState.dateValue, formState.timeValue))
  /\ last' = Attempt(IF inflight' = inflight THEN "submit.invalid" ELSE "submit",
                     IF editingScan # NoScan THEN "edit" ELSE "create", editingScan.id)
  /\ UNCHANGED <<envVars, sockets, referenceLoads, showFilters, scans, filters, page, limit, pageCount, formVars,
                 agendaVars, modalVars>>

(* "Confirmar" / "Cancelar" of the edit form. *)
OnUpdateStatus(nextStatus) ==
  /\ view = "list"
  /\ FormReachable /\ ~isBusy
  /\ isAdmin /\ editingScan # NoScan
  /\ editingScan.status # nextStatus
  /\ nextStatus = "cancelled" => ~editingScan.isScanned
  /\ IF nextStatus = "cancelled" /\ editingScan.isScanned
     THEN /\ error' = CannotCancelScanned
          /\ last' = Attempt("status.rejected", nextStatus, editingScan.id)
          /\ UNCHANGED <<inflight, isBusy>>
     ELSE /\ Room
          /\ error' = NoError
          /\ isBusy' = TRUE
          /\ inflight' = Send(inflight, ListWrite("status", nextStatus, editingScan.id,
                                                 NoDate, NoTime))
          /\ last' = Attempt("status", nextStatus, editingScan.id)
  /\ UNCHANGED <<envVars, sockets, referenceLoads, showFilters, scans, filters, page, limit, pageCount, formVars,
                 agendaVars, modalVars>>

(* A success path that leaves the form's inputs as they are. *)
formAfterWriteKept(req) == formState

(* The form cell after a write has resolved: onSubmit resets it,
   onUpdateStatus does not write it. *)
formAfterWrite(req) ==
  IF req.origin = "submit" THEN defaultFormState ELSE formState

(* The write resolves: the handler resets its cells and awaits loadScans();
   the render that follows runs the occupied-slots effect if its deps moved. *)
ListWriteOk(req) ==
  /\ view = "list"
  /\ req \in Writes
  /\ LET fs == formAfterWrite(req)
         st == [Occupancy EXCEPT !.bag = Send(Settle(@, req), ListLoad("write", req.query))]
     IN FormSettles(FetchEffect(st, fs, NoScan), fs)
  /\ editingScan' = NoScan
  /\ showForm' = FALSE
  /\ last' = Attempt("write.ok", req.op, req.id)
  /\ UNCHANGED <<envVars, sockets, referenceLoads, showFilters, scans, error, listVars, showTimePicker, agendaVars, modalVars>>

(* A catch that gives the form up: it resets and closes it. *)
ListWriteFailReset(req) ==
  /\ view = "list"
  /\ req \in Writes
  /\ LET st == [Occupancy EXCEPT !.bag = Settle(@, req)]
     IN FormSettles(FetchEffect(st, defaultFormState, NoScan), defaultFormState)
  /\ editingScan' = NoScan
  /\ showForm' = FALSE
  /\ error' = ServerMessage
  /\ isBusy' = FALSE
  /\ last' = Attempt("write.fail", req.op, req.id)
  /\ UNCHANGED <<envVars, sockets, referenceLoads, showFilters, scans, filters, page, limit, pageCount,
                 showTimePicker, agendaVars, modalVars>>

(* The write rejects: catch sets error, finally clears isBusy. *)
ListWriteFail(req) ==
  /\ view = "list"
  /\ req \in Writes
  /\ inflight' = Settle(inflight, req)
  /\ error' = ServerMessage
  /\ isBusy' = FALSE
  /\ last' = Attempt("write.fail", req.op, req.id)
  /\ UNCHANGED <<envVars, sockets, referenceLoads, showFilters, scans, filters, page, limit, pageCount, formVars,
                 agendaVars, modalVars>>

----------------------------------------------------------------------------
(* Agenda view: modals and writes *)

(* A row of the Store is drawn in the grid when slotsByTime holds it under
   one of the day's slots. *)
Displayed(i) ==
  /\ i \in 1..Len(scans)
  /\ scans[i].status # "cancelled"
  /\ toLocalDate(scans[i].dateTime).dateValue = selectedDate
  /\ toLocalDate(scans[i].dateTime).timeValue \in timeSlots

AgendaWrite(op, id, slot) == Request("write", "agenda", op, id, NoQuery, selectedDate, slot)

(* Click on a slot of the grid: onOpenCreate(slot.value) when the slot shows
   no appointment. *)
OnSlotClick(slot) ==
  /\ view = "agenda"
  /\ AgendaPageReachable /\ ~isLoading
  /\ slot \in timeSlots
  /\ slotScans(slot) = {}
  /\ isAdmin
  /\ selectedSlot' = slot
  /\ createForm' = defaultForm
  /\ showCreate' = TRUE
  /\ last' = Did("openCreate")
  /\ UNCHANGED <<envVars, sockets, referenceLoads, showFilters, scans, error, inflight, listVars, formVars, agendaVars,
                 showManage, selectedScan>>

onCloseCreate ==
  /\ showCreate' = FALSE
  /\ selectedSlot' = NoTime
  /\ createForm' = defaultForm

OnCloseCreate ==
  /\ view = "agenda"
  /\ showCreate
  /\ onCloseCreate
  /\ last' = Did("closeCreate")
  /\ UNCHANGED <<envVars, sockets, referenceLoads, showFilters, scans, error, inflight, listVars, formVars, agendaVars,
                 showManage, selectedScan>>

(* The doctor and assignee selects of the create form. *)
OnCreateField(field, value) ==
  /\ view = "agenda"
  /\ showCreate /\ ~isLoading
  /\ field \in {"doctorId", "assignedToId"}
  /\ createForm[field] # value
  /\ createForm' = [createForm EXCEPT ![field] = value]
  /\ last' = Did("field")
  /\ UNCHANGED <<envVars, sockets, referenceLoads, showFilters, scans, error, inflight, listVars, formVars, agendaVars,
                 showCreate, showManage, selectedSlot, selectedScan>>

(* scan.assignedTo?.id === currentUserId *)
isMine(scan) == scan.assignedTo # NoUser /\ scan.assignedTo = authId

(* const canManage of a drawn row *)
canManage(scan) == ~scan.isScanned /\ (isAdmin \/ isMine(scan))

(* "Gestionar" on a drawn row that has an assignee and can be managed;
   onOpenManage returns early for a viewer who is neither administrator nor
   the assignee. *)
OnOpenManage(i) ==
  /\ view = "agenda"
  /\ AgendaPageReachable /\ ~isLoading
  /\ Displayed(i)
  /\ scans[i].assignedTo # NoUser
  /\ canManage(scans[i])
  /\ isAdmin \/ isMine(scans[i])
  /\ selectedScan' = scans[i]
  /\ showManage' = TRUE
  /\ last' = Did("openManage")
  /\ UNCHANGED <<envVars, sockets, referenceLoads, showFilters, scans, error, inflight, listVars, formVars, agendaVars,
                 showCreate, createForm, selectedSlot>>

onCloseManage ==
  /\ selectedScan' = NoScan
  /\ showManage' = FALSE

OnCloseManage ==
  /\ view = "agenda"
  /\ showManage
  /\ onCloseManage
  /\ last' = Did("closeManage")
  /\ UNCHANGED <<envVars, sockets, referenceLoads, showFilters, scans, error, inflight, listVars, formVars, agendaVars,
                 showCreate, createForm, selectedSlot>>

(* A dispatch that takes the row out of the Store before the server answers. *)
AgendaDispatchOptimistic(req, label) ==
  /\ Room
  /\ isLoading' = TRUE
  /\ error' = NoError
  /\ inflight' = Send(inflight, req)
  /\ scans' = WithoutId(scans, req.id)
  /\ last' = Attempt(label, req.op, req.id)
  /\ UNCHANGED <<envVars, sockets, referenceLoads, showFilters, listVars, formVars, selectedDate, modalVars>>

(* Every agenda write starts the same way: setIsLoading(true),
   setError(null), then the request. *)
AgendaDispatch(req, label) ==
  /\ Room
  /\ isLoading' = TRUE
  /\ error' = NoError
  /\ inflight' = Send(inflight, req)
  /\ last' = Attempt(label, req.op, req.id)
  /\ UNCHANGED <<envVars, sockets, referenceLoads, showFilters, scans, listVars, formVars, selectedDate, modalVars>>

NoCurrentUser == "No se detecto el usuario actual."

(* PATCH /scans/:id/assign/:currentUserId *)
AgendaAssign(id) == [AgendaWrite("assign", id, NoTime) EXCEPT !.actor = authId]

(* An assign handler that does not look at who is logged in. *)
onAssignToMeAnyone(scan) == AgendaDispatch(AgendaAssign(scan.id), "assign")

(* onAssignToMe(scan) *)
onAssignToMe(scan) ==
  IF authId = NoUser
  THEN /\ error' = NoCurrentUser
       /\ last' = Attempt("assign.rejected", "assign", scan.id)
       /\ UNCHANGED <<envVars, sockets, referenceLoads, showFilters, scans, inflight, listVars, formVars,
                      agendaVars, modalVars>>
  ELSE AgendaDispatch(AgendaAssign(scan.id), "assign")

(* "Tomar" on a drawn row without an assignee. *)
OnAssignToMe(i) ==
  /\ view = "agenda"
  /\ AgendaPageReachable /\ ~isLoading
  /\ Displayed(i)
  /\ scans[i].assignedTo = NoUser
  /\ onAssignToMe(scans[i])

(* "Desasignar" of the manage modal. *)
OnUnassign ==
  /\ view = "agenda"
  /\ showManage /\ ~isLoading
  /\ selectedScan # NoScan
  /\ ~selectedScan.isScanned
  /\ AgendaDispatch(AgendaWrite("unassign", selectedScan.id, NoTime), "unassign")

(* "Marcar escaneado" of the manage modal. *)
OnMarkScanned ==
  /\ view = "agenda"
  /\ showManage /\ ~isLoading
  /\ selectedScan # NoScan
  /\ isMine(selectedScan)
  /\ ~selectedScan.isScanned
  /\ selectedScan.status = "confirmed"
  /\ AgendaDispatch(AgendaWrite("markScanned", selectedScan.id, NoTime), "markScanned")

(* "Confirmar" / "Cancelar" of the manage modal. *)
OnAgendaUpdateStatus(nextStatus) ==
  /\ view = "agenda"
  /\ showManage /\ ~isLoading
  /\ isAdmin /\ selectedScan # NoScan
  /\ selectedScan.status # nextStatus
  /\ nextStatus = "cancelled" => ~selectedScan.isScanned
  /\ IF nextStatus = "cancelled" /\ selectedScan.isScanned
     THEN /\ error' = CannotCancelScanned
          /\ last' = Attempt("status.rejected", nextStatus, selectedScan.id)
          /\ UNCHANGED <<envVars, sockets, referenceLoads, showFilters, scans, inflight, listVars, formVars,
                         agendaVars, modalVars>>
     ELSE AgendaDispatch(AgendaWrite(nextStatus, selectedScan.id, NoTime), "status")

(* A submit handler that blames the doctor select for whatever is missing. *)
agendaValidationBlunt(form) ==
  IF authId = NoUser \/ form.doctorId = 0 THEN DoctorRequired ELSE NoError

(* The checks at the head of onSubmit's try block in layout.tsx. *)
agendaValidation(form) ==
  IF authId = NoUser THEN CreatorRequired
  ELSE IF form.doctorId = 0 THEN DoctorRequired
  ELSE NoError

(* The create form's submit button. *)
OnAgendaSubmit ==
  /\ view = "agenda"
  /\ showCreate /\ ~isLoading
  /\ selectedSlot # NoTime
  /\ IF agendaValidation(createForm) # NoError
     THEN /\ error' = agendaValidation(createForm)
          /\ isLoading' = FALSE
          /\ last' = Attempt("submit.invalid", "create", 0)
          /\ UNCHANGED <<envVars, sockets, referenceLoads, showFilters, scans, inflight, listVars, formVars, selectedDate,
                         modalVars>>
     ELSE AgendaDispatch(AgendaWrite("create", 0, selectedSlot), "submit")

(* A write resolves: the handler closes its modal and awaits
   loadScans(selectedDate) of its own render. *)
AgendaWriteOk(req) ==
  /\ view = "agenda"
  /\ req \in Writes
  /\ inflight' = Send(Settle(inflight, req), AgendaLoad("write", req.date))
  /\ isLoading' = TRUE
  /\ error' = NoError
  /\ IF req.op = "create" THEN onCloseCreate /\ UNCHANGED <<showManage, selectedScan>>
     ELSE IF req.op = "assign" THEN UNCHANGED modalVars
     ELSE onCloseManage /\ UNCHANGED <<showCreate, createForm, selectedSlot>>
  /\ last' = Attempt("write.ok", req.op, req.id)
  /\ UNCHANGED <<envVars, sockets, referenceLoads, showFilters, scans, listVars, formVars, selectedDate>>

(* A catch that sends the request again and stays busy. *)
AgendaWriteFailRetry(req) ==
  /\ view = "agenda"
  /\ req \in Writes
  /\ inflight' = Send(Settle(inflight, req), req)
  /\ error' = ServerMessage
  /\ isLoading' = TRUE
  /\ last' = Attempt("write.fail", req.op, req.id)
  /\ UNCHANGED <<envVars, sockets, referenceLoads, showFilters, scans, listVars, formVars, selectedDate, modalVars>>

(* The write rejects: catch sets error, finally clears isLoading. *)
AgendaWriteFail(req) ==
  /\ view = "agenda"
  /\ req \in Writes
  /\ inflight' = Settle(inflight, req)
  /\ error' = ServerMessage
  /\ isLoading' = FALSE
  /\ last' = Attempt("write.fail", req.op, req.id)
  /\ UNCHANGED <<envVars, sockets, referenceLoads, showFilters, scans, listVars, formVars, selectedDate, modalVars>>

----------------------------------------------------------------------------
(* List view: the "Filtros" modal *)

OnOpenFilters ==
  /\ view = "list"
  /\ ListPageReachable
  /\ showFilters' = TRUE
  /\ last' = Did("openFilters")
  /\ UNCHANGED <<envVars, sockets, referenceLoads, scans, error, inflight, listVars, formVars, agendaVars,
                 modalVars>>

(* The Modal's "Cerrar" *)
OnCloseFilters ==
  /\ view = "list"
  /\ showFilters
  /\ showFilters' = FALSE
  /\ last' = Did("closeFilters")
  /\ UNCHANGED <<envVars, sockets, referenceLoads, scans, error, inflight, listVars, formVars, agendaVars,
                 modalVars>>

----------------------------------------------------------------------------
(* The inputs the model draws *)

Roles == {"Administrator", "Scanner"}
TzOffsets == {180}

(* Viewers east of Greenwich, on it and further west. *)
ZoneOffsets == {-120, 0, 300}

(* The zones in which the server may read a string without a designator:
   UTC, or the zone of a server that runs on local time. *)
ServerOffsets == {0, 180}

FirstSlot == 8 * 60
SecondSlot == 8 * 60 + 30

(* The appointments a response or an event may carry: wall-clock slots of the
   given days, with or without the viewer as assignee. *)
PayloadsOf(ids, days, lifecycles) ==
  {Scan(id, LocalInstant(d, FirstSlot), a, lc[1], lc[2]) :
     id \in ids, d \in days, a \in {NoUser, Me}, lc \in lifecycles}

(* Reconciliation: two days, so that two rows can tie or differ in instant
   and an event can fall outside the agenda's day. *)
ReconcilePayloads ==
  PayloadsOf(ScanIds, {0, 1}, {<<FALSE, "confirmed">>})

(* Booking: one day, rows that can be taken, managed, marked or are
   cancelled; the agenda's grid shows several rows of a slot, the list view's
   form reads one row. *)
BookingIds == IF view = "agenda" THEN ScanIds ELSE {1}
BookingPayloads ==
  PayloadsOf(BookingIds, {0}, {<<FALSE, "confirmed">>, <<FALSE, "cancelled">>})

(* Lifecycle: one appointment in every stage of its life, unassigned, the
   viewer's or a colleague's. *)
Lifecycles ==
  {<<FALSE, "unconfirmed">>, <<FALSE, "confirmed">>, <<TRUE, "confirmed">>,
   <<FALSE, "cancelled">>}
LifecyclePayloads ==
  {Scan(1, LocalInstant(0, FirstSlot), a, lc[1], lc[2]) :
     a \in {NoUser, Me, OtherUser}, lc \in Lifecycles}

(* The event through which the writes of other clients arrive. *)
LifecycleEventKinds == {<<"scans.updated", "">>}

(* The dates typed into the form's date input: none, a weekday, the last day. *)
DateChoices == {NoDate, 0, MaxDay}

(* The same where the date control hands the typed text through as it is. *)
TextDateChoices == DateChoices \cup {MalformedDate}

LastSlot == 19 * 60 + 30

(* Event name and, for the envelope, its action. *)
EventKinds ==
  {<<name, "">> : name \in EventNames \ {"scans.event"}}
    \cup {<<"scans.event", action>> : action \in EnvelopeActions}

(* The events that interleave with the forms and the writes: one that passes
   the payload on and one that clears its assignee. *)
BookingEventKinds == {<<"scans.updated", "">>, <<"scans.unassigned", "">>}

(* The filter cells the model operates and the values it gives them. *)
ReconcileFilterChoices ==
  {<<"assignee", NoFilter>>, <<"assignee", Me>>, <<"date", NoDate>>, <<"date", 0>>}
BookingFilterChoices == {<<"status", "">>, <<"status", "confirmed">>}

(* "HH:MM" tokens of the server's clock in an occupied-slots response. *)
UtcToken(minute) == (minute + tzOffset) % MinutesPerDay
TokenSets == {{}, {UtcToken(FirstSlot)}}

PickSlots == {FirstSlot, SecondSlot}

(* Zones: one appointment in the first or the last slot of a weekday, whose
   UTC day may differ from the day on the viewer's clock. *)
ZonePayloads ==
  {Scan(1, LocalInstant(0, slot), a, FALSE, "confirmed") :
     slot \in {FirstSlot, LastSlot}, a \in {NoUser, Me}}
ZoneFilterChoices == {<<"date", NoDate>>, <<"date", 0>>}
ZoneDateChoices == {NoDate, 0}
ZoneSlots == {FirstSlot, LastSlot}

AgendaPages(payloads, date) ==
  ServerPages({x \in payloads : UtcDay(x.dateTime) = date}, MaxScanId)

----------------------------------------------------------------------------
(* The state after the component has mounted and its effects have run: the
   first load is in flight. *)

MountedIn(zones) ==
  /\ view \in {"list", "agenda"}
  /\ role \in Roles
  /\ tzOffset \in zones
  /\ scans = <<>>
  /\ error = NoError
  /\ filters = NoFilters
  /\ page = 1
  /\ limit = DefaultLimit
  /\ pageCount = 1
  /\ isBusy = (view = "list")
  /\ formState = defaultFormState
  /\ editingScan = NoScan
  /\ showForm = FALSE
  /\ showTimePicker = FALSE
  /\ showFilters = FALSE
  /\ occupiedSlots = {}
  /\ occupiedError = NoError
  /\ isSlotsLoading = FALSE
  /\ selectedDate \in (IF view = "agenda" THEN Days ELSE {0})
  /\ isLoading = (view = "agenda")
  /\ showCreate = FALSE
  /\ showManage = FALSE
  /\ createForm = defaultForm
  /\ selectedSlot = NoTime
  /\ selectedScan = NoScan
  /\ inflight = SetToBag({IF view = "list" THEN ListLoad("effect", NoQuery)
                          ELSE AgendaLoad("effect", selectedDate)})
  /\ sockets = <<IF view = "list" THEN Socket(NoFilters, DefaultLimit) ELSE AgendaSocket>>
  /\ referenceLoads = MountReferences(view)
  /\ last = Did("mount")

Mounted == MountedIn(TzOffsets)

(* The user who logged in is known. *)
Init == Mounted /\ authId = Me

(* The same for viewers of several zones. *)
InitZones == MountedIn(ZoneOffsets) /\ authId = Me

(* The stored record may give no id: storage emptied by a logout in another
   tab reads as null, and an id of 0 reads as absent. *)
InitIdentity == Mounted /\ authId \in {NoUser, Me}

----------------------------------------------------------------------------
(* The view's lifetime: navigation away unmounts the page component and
   navigation back mounts a new instance of it. *)

(* The useState cells of an instance that has just been created; after an
   unmount they stand for no instance at all. *)
FreshCells ==
  /\ scans' = <<>>
  /\ error' = NoError
  /\ filters' = NoFilters
  /\ page' = 1
  /\ limit' = DefaultLimit
  /\ pageCount' = 1
  /\ formState' = defaultFormState
  /\ editingScan' = NoScan
  /\ showForm' = FALSE
  /\ showTimePicker' = FALSE
  /\ showFilters' = FALSE
  /\ occupiedSlots' = {}
  /\ occupiedError' = NoError
  /\ isSlotsLoading' = FALSE
  /\ showCreate' = FALSE
  /\ showManage' = FALSE
  /\ createForm' = defaultForm
  /\ selectedSlot' = NoTime
  /\ selectedScan' = NoScan

(* The page is torn down: React runs the cleanup of every effect, the socket
   effect's among them; what is still in flight answers to an instance that
   no longer renders. *)
OnUnmount ==
  /\ view \in {"list", "agenda"}
  /\ view' = "none"
  /\ sockets' = socketCleanup(sockets)
  /\ referenceLoads' = {}
  /\ FreshCells
  /\ isBusy' = FALSE
  /\ isLoading' = FALSE
  /\ selectedDate' = 0
  /\ inflight' = EmptyBag
  /\ last' = Did("unmount")
  /\ UNCHANGED <<role, authId, tzOffset>>

(* A page is mounted: its effects run, the first load and the socket effect
   among them. *)
OnMount(v) ==
  /\ view = "none"
  /\ view' = v
  /\ FreshCells
  /\ isBusy' = (v = "list")
  /\ isLoading' = (v = "agenda")
  /\ selectedDate' \in (IF v = "agenda" THEN Days ELSE {0})
  /\ inflight' = SetToBag({IF v = "list" THEN ListLoad("effect", NoQuery)
                           ELSE AgendaLoad("effect", selectedDate')})
  /\ sockets' = Append(sockets, IF v = "list" THEN Socket(NoFilters, DefaultLimit)
                                ELSE AgendaSocket)
  /\ referenceLoads' = MountReferences(v)
  /\ last' = Did("mount")
  /\ UNCHANGED <<role, authId, tzOffset>>

ListLoads(payloads, pageCounts) ==
  \/ \E req \in Loads : \E list \in ListPages(payloads, req.query) :
       \E pc \in pageCounts : ListLoadOk(req, list, pc)
  \/ \E req \in Loads : ListLoadFail(req)

ListFilters(choices) == \E c \in choices : OnFilterChange(c[1], c[2])

ListPaging ==
  \/ \E value \in LimitOptions : OnLimitChange(value)
  \/ \E delta \in {-1, 1} : OnPageChange(delta)

ListFiltersModal ==
  \/ OnOpenFilters
  \/ OnCloseFilters

AgendaRead(payloads) ==
  \/ \E delta \in {-1, 1} : OnChangeDate(delta)
  \/ \E req \in Loads : \E list \in AgendaPages(payloads, req.date) : AgendaLoadOk(req, list)
  \/ \E req \in Loads : AgendaLoadFail(req)

Push(kinds, payloads) ==
  \E kind \in kinds, scan \in payloads : OnSocketEvent(kind[1], kind[2], scan)

ListForm ==
  \/ OnOpenCreate
  \/ \E i \in 1..Len(scans) : OnEdit(i)
  \/ OnCancel
  \/ \E nextValue \in DateChoices : OnDateInput(nextValue)
  \/ OnOpenTimePicker
  \/ OnCloseTimePicker
  \/ \E value \in PickSlots : OnPickSlot(value)
  \/ \E value \in {0, 1} : OnFormField("requestedByDoctorId", value)
  \/ \E req \in InFlight : \E tokens \in TokenSets : OccupiedOk(req, tokens)
  \/ \E req \in InFlight : OccupiedFail(req)

ListWrites ==
  \/ OnSubmit
  \/ \E nextStatus \in {"confirmed", "cancelled"} : OnUpdateStatus(nextStatus)
  \/ \E req \in Writes : ListWriteOk(req)
  \/ \E req \in Writes : ListWriteFail(req)

AgendaModals ==
  \/ \E slot \in PickSlots : OnSlotClick(slot)
  \/ OnCloseCreate
  \/ \E value \in {0, 1} : OnCreateField("doctorId", value)
  \/ \E i \in 1..Len(scans) : OnOpenManage(i)
  \/ OnCloseManage

AgendaWrites ==
  \/ \E i \in 1..Len(scans) : OnAssignToMe(i)
  \/ OnUnassign
  \/ OnMarkScanned
  \/ \E nextStatus \in {"confirmed", "cancelled"} : OnAgendaUpdateStatus(nextStatus)
  \/ OnAgendaSubmit
  \/ \E req \in Writes : AgendaWriteOk(req)
  \/ \E req \in Writes : AgendaWriteFail(req)

(* Reconciliation of the Store: loads, filter, page-size, page and date
   changes, and push events, in both views. *)
NextReconcile ==
  \/ ListLoads(ReconcilePayloads, 1..MaxPage)
  \/ ListFilters(ReconcileFilterChoices)
  \/ ListPaging
  \/ AgendaRead(ReconcilePayloads)
  \/ Push(EventKinds, ReconcilePayloads)

SpecReconcile == Init /\ [][NextReconcile]_vars

(* Booking: the forms of both views, their writes, and the loads and push
   events that interleave with them, under one setting of the filters. *)
NextBooking ==
  \/ ListLoads(BookingPayloads, {1})
  \/ AgendaRead(BookingPayloads)
  \/ Push(BookingEventKinds, BookingPayloads)
  \/ ListForm
  \/ ListWrites
  \/ AgendaModals
  \/ AgendaWrites

SpecBooking == Init /\ [][NextBooking]_vars

(* Writes against reads: the write handlers of both views with the loads
   that filter changes, the refresh button and the writes themselves start. *)
Next ==
  \/ ListLoads(BookingPayloads, {1})
  \/ ListFilters(BookingFilterChoices)
  \/ ListFiltersModal
  \/ OnRefresh
  \/ AgendaRead(BookingPayloads)
  \/ Push(BookingEventKinds, BookingPayloads)
  \/ \E i \in 1..Len(scans) : OnEdit(i)
  \/ OnCancel
  \/ \E req \in InFlight : \E tokens \in TokenSets : OccupiedOk(req, tokens)
  \/ \E req \in InFlight : OccupiedFail(req)
  \/ ListWrites
  \/ AgendaModals
  \/ AgendaWrites

Spec == Init /\ [][Next]_vars

(* Lifecycle: the controls that act on one appointment, in both views, with
   the loads and the push events that change the appointment under them. *)
NextLifecycle ==
  \/ ListLoads(LifecyclePayloads, {1})
  \/ AgendaRead(LifecyclePayloads)
  \/ Push(LifecycleEventKinds, LifecyclePayloads)
  \/ \E i \in 1..Len(scans) : OnEdit(i)
  \/ OnCancel
  \/ \E req \in InFlight : \E tokens \in TokenSets : OccupiedOk(req, tokens)
  \/ \E req \in InFlight : OccupiedFail(req)
  \/ ListWrites
  \/ \E i \in 1..Len(scans) : OnOpenManage(i)
  \/ OnCloseManage
  \/ \E i \in 1..Len(scans) : OnAssignToMe(i)
  \/ OnUnassign
  \/ OnMarkScanned
  \/ \E nextStatus \in {"confirmed", "cancelled"} : OnAgendaUpdateStatus(nextStatus)
  \/ \E req \in Writes : AgendaWriteOk(req)
  \/ \E req \in Writes : AgendaWriteFail(req)

SpecLifecycle == InitIdentity /\ [][NextLifecycle]_vars

(* Validation: the booking forms of both views and their submit handlers,
   for a viewer whose id may be unknown. *)
NextValidation ==
  \/ ListLoads(BookingPayloads, {1})
  \/ AgendaRead(BookingPayloads)
  \/ ListForm
  \/ ListWrites
  \/ AgendaModals
  \/ OnAgendaSubmit
  \/ \E req \in Writes : AgendaWriteOk(req)
  \/ \E req \in Writes : AgendaWriteFail(req)

SpecValidation == InitIdentity /\ [][NextValidation]_vars

(* Subscription: the push connection across filter, page-size and date
   changes, loads, events, and the unmounting and mounting of the views. *)
NextSubscription ==
  \/ ListLoads(ReconcilePayloads, 1..MaxPage)
  \/ ListFilters(ReconcileFilterChoices)
  \/ ListPaging
  \/ AgendaRead(ReconcilePayloads)
  \/ Push(EventKinds, ReconcilePayloads)
  \/ OnUnmount
  \/ \E v \in {"list", "agenda"} : OnMount(v)

SpecSubscription == Init /\ [][NextSubscription]_vars

(* Failures: every external call of both views with both of its outcomes:
   the reference loads, the loads of the Store, the occupied-slots fetch and
   the writes. *)
NextFailures ==
  \/ \E r \in referenceLoads : ReferenceOk(r)
  \/ \E r \in referenceLoads : ReferenceFail(r)
  \/ ListLoads(BookingPayloads, {1})
  \/ OnRefresh
  \/ AgendaRead(BookingPayloads)
  \/ OnOpenCreate
  \/ \E i \in 1..Len(scans) : OnEdit(i)
  \/ OnCancel
  \/ \E req \in InFlight : \E tokens \in TokenSets : OccupiedOk(req, tokens)
  \/ \E req \in InFlight : OccupiedFail(req)
  \/ ListWrites
  \/ \E i \in 1..Len(scans) : OnOpenManage(i)
  \/ OnCloseManage
  \/ OnUnassign
  \/ \E req \in Writes : AgendaWriteOk(req)
  \/ \E req \in Writes : AgendaWriteFail(req)

SpecFailures == Init /\ [][NextFailures]_vars

(* Calendar: the date controls of both views and the pickers they feed, where
   the form's date input may hold text that is not a date. *)
NextCalendar ==
  \/ ListLoads(BookingPayloads, {1})
  \/ AgendaRead(BookingPayloads)
  \/ OnOpenCreate
  \/ OnCancel
  \/ \E nextValue \in TextDateChoices : OnDateInput(nextValue)
  \/ OnOpenTimePicker
  \/ OnCloseTimePicker
  \/ \E value \in PickSlots \cup {LastSlot} : OnPickSlot(value)
  \/ \E req \in InFlight : \E tokens \in TokenSets : OccupiedOk(req, tokens)
  \/ \E req \in InFlight : OccupiedFail(req)
  \/ \E slot \in PickSlots \cup {LastSlot} : OnSlotClick(slot)
  \/ OnCloseCreate

SpecCalendar == Init /\ [][NextCalendar]_vars

(* Zones: what depends on the viewer's clock: the date filter of the list on
   both of its paths, the date buttons of the agenda, and the creation of an
   appointment through the form of either view. *)
NextZones ==
  \/ ListLoads(ZonePayloads, {1})
  \/ ListFilters(ZoneFilterChoices)
  \/ AgendaRead(ZonePayloads)
  \/ Push(LifecycleEventKinds, ZonePayloads)
  \/ OnOpenCreate
  \/ OnCancel
  \/ \E nextValue \in ZoneDateChoices : OnDateInput(nextValue)
  \/ \E value \in ZoneSlots : OnPickSlot(value)
  \/ OnFormField("requestedByDoctorId", 1)
  \/ \E req \in InFlight : OccupiedOk(req, {})
  \/ OnSubmit
  \/ \E req \in Writes : ListWriteOk(req)
  \/ \E req \in Writes : ListWriteFail(req)
  \/ \E slot \in ZoneSlots : OnSlotClick(slot)
  \/ OnCloseCreate
  \/ OnCreateField("doctorId", 1)
  \/ OnAgendaSubmit
  \/ \E req \in Writes : AgendaWriteOk(req)
  \/ \E req \in Writes : AgendaWriteFail(req)

SpecZones == InitZones /\ [][NextZones]_vars

----------------------------------------------------------------------------
(* Properties of the Event Reconciler, under SpecReconcile *)

IsDescending(s) == \A i \in 1..(Len(s) - 1) : s[i].dateTime >= s[i + 1].dateTime
StrictlyDescending(s) == \A i \in 1..(Len(s) - 1) : s[i].dateTime > s[i + 1].dateTime
Min(a, b) == IF a <= b THEN a ELSE b

PushedInList == view = "list" /\ last'.op = "push"

(* C1, as amended: in the list view a push event that takes the insert or the
   replace path leaves the Store in descending order of instant, entries of
   equal instant allowed next to each other; the remove and no-op paths do
   not reorder, so a Store that was in descending order stays in it. *)
C1_DescendingAfterPush ==
  [][PushedInList =>
       /\ last'.path \in {"insert", "replace"} => IsDescending(scans')
       /\ IsDescending(scans) => IsDescending(scans')]_vars

(* C1 witness: a push event has just been inserted or replaced in the list and
   the Store holds two appointments of the same instant side by side. *)
C1_TieAfterPush ==
  /\ view = "list" /\ last.op = "push" /\ last.path \in {"insert", "replace"}
  /\ Len(scans) = 2
  /\ scans[1].dateTime = scans[2].dateTime

(* C1 as stated: in the list view a push event applied to a Store that is
   strictly descending by instant leaves it strictly descending, no two
   adjacent entries tied. *)
C1_StrictlyDescendingAfterPush ==
  [][PushedInList /\ StrictlyDescending(scans) => StrictlyDescending(scans')]_vars

(* C2 as stated: in the list view, after a push event, whichever path it
   takes, the Store holds no more appointments than the page size in force. *)
C2_WithinLimitAfterPush ==
  [][PushedInList => Len(scans') <= limit]_vars

(* C3: in both views a push event whose appointment fails the active
   predicate leaves the previous Store without the entry of that id: the same
   Store when the id is absent, otherwise the other entries in their order. *)
C3_NonMatchingRemoves ==
  [][last'.op = "push" /\ last'.path \in {"noop", "remove"} =>
       /\ scans' = SelectSeq(scans, LAMBDA item : item.id # last'.id)
       /\ last'.path = "noop" => scans' = scans
       /\ last'.path = "remove" => Len(scans') = Len(scans) - 1]_vars

(* C3 witness: the agenda has just dropped an appointment that an event moved
   off the selected date, and kept another one. *)
C3_RemovedFromAgenda ==
  /\ view = "agenda" /\ last.op = "push" /\ last.path = "remove"
  /\ Len(scans) = 1
  /\ scans[1].id # last.id

(* C4: a push event whose appointment matches the active predicate and whose
   id is absent is inserted: in the agenda in front of the whole previous
   Store; in the list into the previous Store sorted descending by instant,
   of which the first `limit` entries are kept. *)
C4_InsertPath ==
  [][last'.op = "push" /\ last'.path = "insert" =>
       LET all == <<last'.scan>> \o scans
       IN IF view = "agenda"
          THEN scans' = all
          ELSE /\ scans' = SubSeq(SortDesc(all), 1, Min(limit, Len(all)))
               /\ IsDescending(scans')
               /\ Len(scans') <= limit]_vars

(* C4 witness: the list is full and an inserted appointment has taken the
   last place, behind a later one. *)
C4_InsertedBehind ==
  /\ view = "list" /\ last.op = "push" /\ last.path = "insert"
  /\ Len(scans) = limit /\ Len(scans) = 2
  /\ scans[2].id = last.id
  /\ scans[1].dateTime > scans[2].dateTime

(* C5: a push event whose appointment matches and whose id is in the Store
   replaces that entry by the incoming snapshot and no other; the agenda
   keeps the entry at its index, the list is in descending order afterwards;
   the length is the same. *)
C5_ReplacePath ==
  [][last'.op = "push" /\ last'.path = "replace" =>
       LET index == findIndex(scans, last'.id)
           replaced == [scans EXCEPT ![index] = last'.scan]
       IN /\ index # 0
          /\ Len(scans') = Len(scans)
          /\ Range(scans') = Range(replaced)
          /\ view = "agenda" => scans' = replaced
          /\ view = "list" => IsDescending(scans')]_vars

(* C5 witness: the list has just replaced an appointment whose new instant
   moved it from the second place to the first. *)
C5_ReplacedAndMoved ==
  /\ view = "list" /\ last.op = "push" /\ last.path = "replace"
  /\ Len(scans) = 2
  /\ scans[1] = last.scan
  /\ scans[1].dateTime > scans[2].dateTime

(* C6: after a push event that carries the unassigned action, by its name or
   in the envelope, the Store's entry of that appointment has no assignee. *)
C6_UnassignedClearsAssignee ==
  [][last'.op = "push" /\ last'.unassigned =>
       \A i \in 1..Len(scans') :
         scans'[i].id = last'.id => scans'[i].assignedTo = NoUser]_vars

(* C6 witness: an unassigned event whose payload still named an assignee has
   been inserted or replaced, and the Store shows the appointment unassigned. *)
C6_ForcedUnassigned ==
  /\ last.op = "push" /\ last.forced /\ last.path \in {"insert", "replace"}
  /\ \E i \in 1..Len(scans) : scans[i].id = last.id /\ scans[i].assignedTo = NoUser

----------------------------------------------------------------------------
(* Properties of the Booking Workflow, under SpecBooking *)

(* C7: a slot is chosen only if the generator lists it for the chosen date
   and it is not occupied: a pick in the list view's picker makes a slot the
   form's time only if it is an option of the form's date and is not in
   occupiedSlots; the agenda's create form opens for a slot of the selected
   date only when the Store holds no appointment in that slot that is not
   cancelled. *)
C7_OnlyFreeGeneratedSlots ==
  [][/\ last'.op = "pickSlot" =>
          /\ formState'.timeValue \in Range(buildWorkingTimeOptions(formState.dateValue))
          /\ formState'.timeValue \notin occupiedSlots
     /\ showCreate' /\ ~showCreate =>
          /\ selectedSlot' \in Range(buildWorkingSlots(selectedDate))
          /\ \A i \in 1..Len(scans) :
               ~ /\ scans[i].status # "cancelled"
                 /\ toLocalDate(scans[i].dateTime).dateValue = selectedDate
                 /\ toLocalDate(scans[i].dateTime).timeValue = selectedSlot']_vars

(* C7 witness: with another slot reported occupied, a free slot has just been
   picked and is the form's time. *)
C7_PickedFreeSlot ==
  /\ last.op = "pickSlot"
  /\ occupiedSlots # {}
  /\ formState.timeValue # NoTime
  /\ formState.timeValue \notin occupiedSlots

(* C8: in the list view's form a chosen time is an option of the chosen date
   and is not in occupiedSlots, in every state and so whenever a create or an
   edit is dispatched: a time that becomes occupied or falls out of the
   options is cleared. *)
C8_ChosenTimeValid ==
  formState.timeValue # NoTime =>
    /\ formState.timeValue \in Range(buildWorkingTimeOptions(formState.dateValue))
    /\ formState.timeValue \notin occupiedSlots

(* C8 witness: the edit form's time, which was the appointment's own slot, is
   empty after an occupied-slots response that lists that slot. *)
C8_TimeClearedByOccupancy ==
  /\ last.op = "occupied.ok"
  /\ editingScan # NoScan
  /\ formState.dateValue = toLocalDateTimeParts(editingScan.dateTime).dateValue
  /\ toLocalDateTimeParts(editingScan.dateTime).timeValue \in occupiedSlots
  /\ formState.timeValue = NoTime

----------------------------------------------------------------------------
(* Properties of the writes, under Spec *)

WritesInFlight == BagCardinality([r \in Writes |-> inflight[r]])
BusyFlag == IF view = "list" THEN isBusy ELSE isLoading

(* C9 as stated: at most one write of the view is in flight, and while one is
   in flight the busy flag is true. *)
C9_OneWriteInFlight ==
  /\ WritesInFlight <= 1
  /\ WritesInFlight > 0 => BusyFlag

(* C10, as amended: no write changes the Store when it is dispatched, when it
   succeeds or when it fails; while a write is in flight the Store changes
   only by a push event or by the response of a load. *)
C10_NoOptimisticUpdate ==
  [][/\ scans' # scans => last'.op \in {"push", "load.ok", "load.fail"}
     /\ last'.op \in {"write.ok", "write.fail"} => scans' = scans]_vars

(* C10 witness: a write is in flight and the response of a load has just
   replaced the Store. *)
C10_LoadLandsDuringWrite ==
  /\ Writes # {}
  /\ last.op = "load.ok"
  /\ scans # <<>>

(* C10 as stated: while a write is in flight the Store changes only by a push
   event. *)
C10_OnlyPushDuringWrite ==
  [][Writes # {} /\ scans' # scans => last'.op = "push"]_vars

----------------------------------------------------------------------------
(* Properties of the lifecycle controls, under SpecLifecycle *)

(* The Store's entry of an appointment, NoScan when it has none. *)
StoreEntry(id) ==
  IF findIndex(scans, id) = 0 THEN NoScan ELSE scans[findIndex(scans, id)]

(* The write requests a step sends. *)
NewWrites ==
  {r \in BagToSet(inflight') :
     r.kind = "write" /\ CopiesIn(r, inflight') > CopiesIn(r, inflight)}

(* The write requests a step takes the response of. *)
SettledWrites ==
  {r \in Writes : CopiesIn(r, inflight') < CopiesIn(r, inflight)}

(* The step is a run of onUpdateStatus("cancelled"). *)
CancelAttempt ==
  last'.op \in {"status", "status.rejected"} /\ last'.path = "cancelled"

(* C11 as stated: a cancel attempt on an appointment that the Store shows as
   scanned is rejected: nothing is sent, the Store, the open form or modal
   and the busy flag stay as they are, and error holds the message. *)
C11_CancelOfScannedRejected ==
  [][CancelAttempt /\ StoreEntry(last'.id).isScanned
       => /\ NewWrites = {}
          /\ error' = CannotCancelScanned
          /\ UNCHANGED <<scans, formVars, modalVars, isBusy, isLoading>>]_vars

(* C12 as stated: no cancel request is sent for an appointment whose Store
   entry is scanned at the moment of sending. *)
C12_NoCancelOfScanned ==
  [][\A r \in NewWrites :
       r.op = "cancelled" => ~StoreEntry(r.id).isScanned]_vars

(* C13 as stated: no edit request is sent for an appointment whose Store
   entry is cancelled or scanned at the moment of sending. *)
C13_NoEditOfCancelled ==
  [][\A r \in NewWrites :
       r.op = "edit" => /\ StoreEntry(r.id).status # "cancelled"
                        /\ ~StoreEntry(r.id).isScanned]_vars

(* C14 as stated: no step opens the edit form over a row that is scanned or
   cancelled, and onEdit of any other row leaves the form open with the date
   and the slot of the stored instant, as local date and time parts. *)
C14_EditPrepopulates ==
  [][/\ editingScan' # editingScan /\ editingScan' # NoScan
          => ~editingScan'.isScanned /\ editingScan'.status # "cancelled"
     /\ last'.op = "edit"
          => /\ showForm'
             /\ formState'.dateValue = toLocalDateTimeParts(editingScan'.dateTime).dateValue
             /\ formState'.timeValue = toLocalDateTimeParts(editingScan'.dateTime).timeValue]_vars

(* C15 as stated: a mark-scanned request is sent only for an appointment
   that the Store shows as assigned to the viewer, confirmed and not
   scanned. *)
C15_MarkScannedGuarded ==
  [][\A r \in NewWrites :
       r.op = "markScanned" => /\ isMine(StoreEntry(r.id))
                               /\ StoreEntry(r.id).status = "confirmed"
                               /\ ~StoreEntry(r.id).isScanned]_vars

(* C16: an assign-to-self request is sent only by a viewer whose id is known,
   names that viewer, and is for an appointment that the Store shows as
   unassigned; a viewer whose id is not known sends nothing, gets the error
   message and leaves the busy flag as it is; when the request succeeds the
   agenda of the date is loaded again. *)
C16_AssignToSelfGuarded ==
  [][/\ \A r \in NewWrites :
          r.op = "assign" => /\ authId # NoUser /\ r.actor = authId
                             /\ StoreEntry(r.id) # NoScan
                             /\ StoreEntry(r.id).assignedTo = NoUser
     /\ last'.op \in {"assign", "assign.rejected"} /\ authId = NoUser
          => /\ NewWrites = {}
             /\ error' = NoCurrentUser
             /\ isLoading' = isLoading
     /\ \A r \in SettledWrites :
          r.op = "assign" /\ last'.op = "write.ok"
            => AgendaLoad("write", r.date) \in BagToSet(inflight')]_vars

(* C16 witness: the viewer took an appointment that the Store still shows as
   unassigned, the request has succeeded and the reload is in flight. *)
C16_TakenAndReloading ==
  /\ view = "agenda"
  /\ authId = Me
  /\ last.op = "write.ok" /\ last.path = "assign"
  /\ StoreEntry(last.id).assignedTo = NoUser
  /\ AgendaLoad("write", selectedDate) \in InFlight

(* C17 as stated: whoever sees an assigned appointment that is not scanned
   can manage it, and so unassign it, whoever its assignee is; and no unassign
   request is sent for an appointment that the Store shows as scanned. *)
C17_UnassignOpenToAll ==
  [][/\ view = "agenda" /\ authId # NoUser
          => \A i \in 1..Len(scans) :
               Displayed(i) /\ scans[i].assignedTo # NoUser /\ ~scans[i].isScanned
                 => canManage(scans[i])
     /\ \A r \in NewWrites :
          r.op = "unassign" => ~StoreEntry(r.id).isScanned]_vars

(* C18 as stated: a confirm request is sent only for an appointment that the
   Store does not show as confirmed, a cancel request only for one that it
   shows neither as cancelled nor as scanned, and the request asks for
   exactly the status of the button pressed. *)
C18_OnlyRealTransitions ==
  [][/\ \A r \in NewWrites :
          /\ r.op = "confirmed" => StoreEntry(r.id).status # "confirmed"
          /\ r.op = "cancelled" => /\ StoreEntry(r.id).status # "cancelled"
                                   /\ ~StoreEntry(r.id).isScanned
     /\ last'.op = "status" => \E r \in NewWrites : r.op = last'.path]_vars

----------------------------------------------------------------------------
(* Properties of the submit handlers, under SpecValidation *)

(* What the form on screen lacks, as the submit handler of the view reads
   it. *)
DateMissing == view = "list" /\ formState.dateValue = NoDate
SlotMissing ==
  IF view = "list" THEN formState.timeValue = NoTime ELSE selectedSlot = NoTime
CreatorMissing ==
  /\ authId = NoUser
  /\ view = "list" => formState.createdById = NoUser
DoctorMissing ==
  IF view = "list" THEN formState.requestedByDoctorId = 0 ELSE createForm.doctorId = 0

(* C19: a step that sends a create or an edit request starts from a form
   with a date, a slot, a creator and a doctor; a submit of a form that lacks
   one of them sends nothing. *)
C19_InvalidSubmitStaysLocal ==
  [][/\ \A r \in NewWrites :
          r.op \in {"create", "edit"}
            => ~DateMissing /\ ~SlotMissing /\ ~CreatorMissing /\ ~DoctorMissing
     /\ last'.op \in {"submit", "submit.invalid"}
          /\ (DateMissing \/ SlotMissing \/ CreatorMissing \/ DoctorMissing)
          => inflight' = inflight]_vars

(* C19 witness: a submit without a known creator has been turned down and
   no write is in flight. *)
C19_CreatorlessSubmitStopped ==
  /\ last.op = "submit.invalid"
  /\ CreatorMissing /\ ~SlotMissing /\ ~DoctorMissing
  /\ Writes = {}

(* C20: after a submit that validation turned down, error holds the message
   of what is missing, the form is open with its inputs as they were, the
   busy flag is false and nothing was sent. *)
C20_ValidationErrorSurfaced ==
  [][last'.op = "submit.invalid"
       => /\ error' \in {DateTimeRequired, CreatorRequired, DoctorRequired}
          /\ error' = DateTimeRequired => DateMissing \/ SlotMissing
          /\ error' = CreatorRequired => CreatorMissing
          /\ error' = DoctorRequired => DoctorMissing
          /\ IF view = "list" THEN showForm' ELSE showCreate'
          /\ UNCHANGED <<formState, editingScan, createForm, selectedSlot, selectedDate>>
          /\ ~BusyFlag'
          /\ NewWrites = {}]_vars

(* C20 witness: the agenda's create form is open and error holds the
   message of the doctor select that was left empty. *)
C20_DoctorMessageShown ==
  /\ view = "agenda"
  /\ last.op = "submit.invalid"
  /\ error = DoctorRequired
  /\ showCreate /\ DoctorMissing /\ ~CreatorMissing
  /\ ~isLoading

----------------------------------------------------------------------------
(* Properties of the round trip of a submit, under SpecBooking *)

(* The load requests a step takes the response of. *)
SettledLoads ==
  {r \in Loads : CopiesIn(r, inflight') < CopiesIn(r, inflight)}

(* The load requests a step sends. *)
NewLoads ==
  {r \in BagToSet(inflight') :
     r.kind = "load" /\ CopiesIn(r, inflight') > CopiesIn(r, inflight)}

(* The step is the success path of a create or an edit. *)
SubmitSucceeded == last'.op = "write.ok" /\ last'.path \in {"create", "edit"}

(* C21: when a create or an edit request succeeds the form's inputs are back
   at their defaults, the form is closed and a load of the Store is sent,
   while the Store itself stays as it was; when that load answers, the Store
   is a page of the server's answer to its query. *)
C21_SuccessResetsAndReloads ==
  [][/\ SubmitSucceeded =>
          /\ IF view = "list"
             THEN formState' = defaultFormState /\ editingScan' = NoScan /\ ~showForm'
             ELSE createForm' = defaultForm /\ selectedSlot' = NoTime /\ ~showCreate'
          /\ \E r \in NewLoads : r.origin = "write"
          /\ scans' = scans
     /\ last'.op = "load.ok" =>
          \A r \in SettledLoads :
            r.origin = "write" =>
              scans' \in (IF view = "list" THEN ListPages(BookingPayloads, r.query)
                          ELSE AgendaPages(BookingPayloads, r.date))]_vars

(* C21 witness: a create of the list view has succeeded; the form is closed
   and empty, the reload is in flight and the Store, which was empty, has not
   been given the new appointment. *)
C21_CreatedAndReloading ==
  /\ view = "list"
  /\ last.op = "write.ok" /\ last.path = "create"
  /\ formState = defaultFormState /\ ~showForm
  /\ \E r \in Loads : r.origin = "write"
  /\ scans = <<>>

(* The step is the failure path of a create or an edit. *)
SubmitFailed == last'.op = "write.fail" /\ last'.path \in {"create", "edit"}

(* C22: the step in which a create or an edit request fails sets error to
   the failure's message and leaves the form as it finds it: its inputs, the
   appointment or the slot it is about, whether it is open, and the Store. *)
C22_FailureKeepsForm ==
  [][SubmitFailed =>
       /\ error' = ServerMessage
       /\ UNCHANGED <<formState, editingScan, showForm, showTimePicker>>
       /\ UNCHANGED <<createForm, selectedSlot, showCreate, selectedDate>>
       /\ scans' = scans]_vars

(* C22 witness: an edit has failed; the form is open over the same
   appointment with the slot that was submitted, and error holds the message. *)
C22_FailedEditStillOpen ==
  /\ view = "list"
  /\ last.op = "write.fail" /\ last.path = "edit"
  /\ showForm /\ editingScan # NoScan
  /\ formState.timeValue # NoTime
  /\ error = ServerMessage

(* The step takes the response of a request whose form or modal is closed:
   in the list view every occupied-slots fetch and every write is sent by the
   form; in the agenda every write but "Tomar" is sent by a modal. *)
ResponseAfterClose ==
  IF view = "list"
  THEN /\ ~showForm
       /\ last'.op \in {"occupied.ok", "occupied.fail", "write.ok", "write.fail"}
  ELSE /\ last'.op \in {"write.ok", "write.fail"}
       /\ IF last'.path = "create" THEN ~showCreate
          ELSE last'.path # "assign" /\ ~showManage

(* C23 as stated: the response of a request whose form or modal has been
   closed in the meantime is ignored: the form's inputs, the appointment or
   slot it was about, the occupied set and its error, error, and the
   visibility of the form and of the modals are as they were. *)
C23_ClosedFormIgnoresResponse ==
  [][ResponseAfterClose =>
       /\ UNCHANGED <<formState, editingScan, occupiedSlots, occupiedError>>
       /\ UNCHANGED <<createForm, selectedSlot, selectedScan>>
       /\ UNCHANGED <<showForm, showTimePicker, showCreate, showManage>>
       /\ error' = error]_vars

(* C24: a push event, whenever it arrives, leaves every cell of the forms and
   modals as it is: the inputs of both forms, the appointment being edited or
   managed, the chosen slot, the occupied set and its flags, and which form
   or modal is open. *)
C24_PushLeavesFormsAlone ==
  [][last'.op = "push" =>
       /\ UNCHANGED <<formState, editingScan, occupiedSlots, occupiedError, isSlotsLoading>>
       /\ UNCHANGED <<createForm, selectedSlot, selectedScan>>
       /\ UNCHANGED <<showForm, showTimePicker, showFilters, showCreate, showManage>>]_vars

(* C24 witness: a push event has changed the Store's entry of the appointment
   the manage modal is open on, and the modal still holds what it was opened
   with. *)
C24_PushUnderOpenModal ==
  /\ view = "agenda"
  /\ last.op = "push"
  /\ showManage /\ selectedScan # NoScan
  /\ last.id = selectedScan.id
  /\ last.scan # selectedScan

----------------------------------------------------------------------------
(* Properties of the push connection, under SpecSubscription *)

(* C25: a mounted view has exactly one open connection and no view has more;
   in the list view its handlers close over the filter cells and the page
   size as they are now, so every event is matched against the current
   predicate; with no view mounted no connection is open. *)
C25_OneCurrentConnection ==
  /\ Len(sockets) <= 1
  /\ view = "none" <=> sockets = <<>>
  /\ view = "list" => sockets = <<Socket(filters, limit)>>

(* C25 witness: after a change of the assignee filter, an event whose
   appointment fails the new filter has been taken out of the Store by the
   one connection that is open. *)
C25_EventAgainstNewFilter ==
  /\ view = "list"
  /\ last.op = "push" /\ last.path = "remove"
  /\ filters.assignee = Me
  /\ last.scan.assignedTo # Me
  /\ Len(sockets) = 1

----------------------------------------------------------------------------
(* Properties of the occupied-slots fetch, under SpecBooking *)

(* C26: the step in which an occupied-slots fetch fails leaves the occupied
   set empty, so that no option of the form's date is occupied, sets
   occupiedError and ends the loading state; and occupiedError is cleared
   only by a step that leaves a new fetch loading or the form without a
   date, so an occupied set emptied by a failure is never on show without
   it. *)
C26_FailedFetchFailsOpen ==
  [][/\ last'.op = "occupied.fail" =>
          /\ occupiedSlots' = {}
          /\ \A value \in Range(buildWorkingTimeOptions(formState'.dateValue)) :
               value \notin occupiedSlots'
          /\ occupiedError' # NoError
          /\ ~isSlotsLoading'
     /\ occupiedError # NoError /\ occupiedError' = NoError =>
          isSlotsLoading' \/ formState'.dateValue = NoDate]_vars

(* C26 witness: the fetch for the form's date has failed; the picker is open
   with the options of that date, none of them occupied, and occupiedError
   holds the message. *)
C26_FailedFetchOnShow ==
  /\ last.op = "occupied.fail"
  /\ showForm /\ showTimePicker
  /\ timeOptions # {}
  /\ occupiedSlots = {}
  /\ occupiedError = ServerMessage
  /\ ~isSlotsLoading

----------------------------------------------------------------------------
(* Properties of failure handling, under Spec *)

(* The handlers that send a write, by what they leave in `last`. *)
WriteActions == {"submit", "status", "assign", "unassign", "markScanned"}

(* C27: the number of writes in flight grows only in a step of one of the
   write handlers, and then by one; the step in which a write fails takes
   that write out of flight and puts none in its place, leaves the busy flag
   false and leaves the form and the modals open or closed as they were; and
   whenever no load and no write is in flight the busy flag is false. *)
C27_NoRetryNoStuckBusy ==
  [][/\ WritesInFlight' > WritesInFlight =>
          /\ last'.op \in WriteActions
          /\ WritesInFlight' = WritesInFlight + 1
     /\ last'.op = "write.fail" =>
          /\ WritesInFlight' = WritesInFlight - 1
          /\ ~BusyFlag'
          /\ UNCHANGED <<showForm, showCreate, showManage>>
     /\ Loads' = {} /\ Writes' = {} => ~BusyFlag']_vars

(* C27 witness: an unassign has failed; nothing is in flight, the agenda is
   not busy and the manage modal is still open with the message in error. *)
C27_FailedUnassignSettled ==
  /\ view = "agenda"
  /\ last.op = "write.fail" /\ last.path = "unassign"
  /\ Loads = {} /\ Writes = {}
  /\ ~isLoading
  /\ showManage
  /\ error = ServerMessage

(* The step is the rejection of an external call. *)
CallFailed ==
  last'.op \in {"load.fail", "write.fail", "occupied.fail", "reference.fail"}

(* C28 as stated: every step in which an external call of the views fails,
   the reference loads of the mount effect included, ends with a message on
   show: in error, or for the occupied-slots fetch in occupiedError. *)
C28_EveryFailureSurfaced ==
  [][CallFailed =>
       \/ error' = ServerMessage
       \/ last'.op = "occupied.fail" /\ occupiedError' = ServerMessage]_vars

----------------------------------------------------------------------------
(* Properties of the Slot Calendar Generator, under SpecBooking *)

(* The dates the generators are asked about: a week of the calendar and the
   dates that the form and the agenda hold. *)
GeneratorDates == (0..6) \cup ({formState.dateValue, selectedDate} \ {NoDate})

(* C29: for every date that falls on a Sunday both generators return the
   empty sequence, and so the form's options and the agenda's grid are empty
   on such a date. *)
C29_SundayHasNoSlots ==
  /\ \A d \in GeneratorDates :
       getDay(d) = 0 => /\ buildWorkingTimeOptions(d) = <<>>
                        /\ buildWorkingSlots(d) = <<>>
  /\ formState.dateValue # NoDate /\ getDay(formState.dateValue) = 0 => timeOptions = {}
  /\ getDay(selectedDate) = 0 => timeSlots = {}

(* C29 witness: a Sunday has just been typed into the form's date input; the
   picker is open and has no option to offer. *)
C29_SundayInPicker ==
  /\ last.op = "dateInput"
  /\ formState.dateValue # NoDate
  /\ getDay(formState.dateValue) = 0
  /\ showTimePicker
  /\ timeOptions = {}

(* The slots as the claim describes them: from 08:00 in steps of 30 minutes
   up to and including `closing`, `count` of them, each on the hour or the
   half hour. *)
HalfHourly(slots, closing, count) ==
  /\ Len(slots) = count
  /\ slots[1] = 8 * 60
  /\ slots[Len(slots)] = closing
  /\ \A i \in 1..Len(slots) : slots[i] % 60 \in {0, 30}
  /\ \A i \in 1..(Len(slots) - 1) : slots[i + 1] = slots[i] + 30

(* C30: for every date that does not fall on a Sunday both generators return
   the half-hourly slots from 08:00, strictly ascending, up to and including
   13:30 on a Saturday, 12 slots, and 19:30 on any other day, 24 slots. *)
C30_HalfHourlySlots ==
  \A d \in GeneratorDates :
    getDay(d) # 0 =>
      LET closing == IF getDay(d) = 6 THEN 13 * 60 + 30 ELSE 19 * 60 + 30
          count == IF getDay(d) = 6 THEN 12 ELSE 24
      IN /\ HalfHourly(buildWorkingTimeOptions(d), closing, count)
         /\ HalfHourly(buildWorkingSlots(d), closing, count)

(* C30 witness: on a Saturday the agenda's grid has twelve slots, 13:30 the
   last of them, and the create form has just been opened on its first. *)
C30_SaturdayGrid ==
  /\ view = "agenda"
  /\ last.op = "openCreate"
  /\ getDay(selectedDate) = 6
  /\ Len(buildWorkingSlots(selectedDate)) = 12
  /\ 13 * 60 + 30 \in timeSlots
  /\ selectedSlot = 8 * 60

(* C31 as stated: for a date input that is empty or is not a calendar date,
   so that its weekday is undefined, both generators return the empty
   sequence: whenever the form or the agenda holds such a date, the
   generators give no slot for it and the form's picker has no option. *)
C31_MalformedDateHasNoSlots ==
  /\ \A d \in {formState.dateValue, selectedDate} \cap {NoDate, MalformedDate} :
       /\ buildWorkingTimeOptions(d) = <<>>
       /\ buildWorkingSlots(d) = <<>>
  /\ formState.dateValue \in {NoDate, MalformedDate} => timeOptions = {}

----------------------------------------------------------------------------
(* More properties of the Event Reconciler, under SpecReconcile *)

(* A push event with the unassigned action, by its name or in the envelope,
   for an appointment the Store holds with an assignee. *)
UnassignedOfAssigned ==
  /\ last'.op = "push" /\ last'.unassigned
  /\ findIndex(scans, last'.id) # 0
  /\ scans[findIndex(scans, last'.id)].assignedTo # NoUser

(* C33, as amended: such an event replaces the Store's entry by the event's
   snapshot with assignedTo null when that snapshot still matches the active
   predicate, and removes the entry when it does not.  On a replacement the
   other entries stay; the agenda keeps the entry at its index, the list
   sorts the Store again and so keeps every index when the Store with the
   snapshot in place is in descending order.  When moreover the snapshot
   agrees with the Store's entry in every field but assignedTo, the Store
   changes in that one field of that one entry and nowhere else. *)
C33_UnassignedReplacesEntry ==
  [][UnassignedOfAssigned =>
       LET index == findIndex(scans, last'.id)
           snapshot == last'.scan
           replaced == [scans EXCEPT ![index] = snapshot]
       IN /\ snapshot.assignedTo = NoUser
          /\ IF ~ActivePredicate(snapshot)
             THEN scans' = SelectSeq(scans, LAMBDA item : item.id # last'.id)
             ELSE /\ Len(scans') = Len(scans)
                  /\ Range(scans') = Range(replaced)
                  /\ view = "agenda" => scans' = replaced
                  /\ view = "list" /\ IsDescending(replaced) => scans' = replaced
          /\ ( /\ ActivePredicate(snapshot)
               /\ snapshot = [scans[index] EXCEPT !.assignedTo = NoUser]
               /\ view = "list" => IsDescending(scans) )
             => scans' = [scans EXCEPT ![index].assignedTo = NoUser]]_vars

(* C33 witness: an unassigned event whose payload still named an assignee
   has replaced the second of two entries, which now shows no assignee and
   sits where it was, behind the other one. *)
C33_UnassignedInPlace ==
  /\ last.op = "push" /\ last.unassigned /\ last.forced /\ last.path = "replace"
  /\ Len(scans) = 2
  /\ scans[2] = last.scan
  /\ scans[2].assignedTo = NoUser
  /\ scans[1].id # last.id

(* C33 as stated: such an event sets assignedTo of the Store's entry to null
   and leaves every other field of the entry, its position and the rest of
   the Store as they were. *)
C33_UnassignedKeepsRest ==
  [][UnassignedOfAssigned =>
       scans' = [scans EXCEPT ![findIndex(scans, last'.id)].assignedTo = NoUser]]_vars

(* C38: in both views no two entries of the Store have the same appointment
   id, whatever events have been applied, and a push event applied to a
   Store of pairwise distinct ids leaves the ids pairwise distinct. *)
C38_IdsStayDistinct ==
  /\ []DistinctIds(scans)
  /\ [][last'.op = "push" /\ DistinctIds(scans) => DistinctIds(scans')]_vars

(* C38 witness: an event about an appointment the Store already held, as it
   is when the same snapshot comes on its named event and in the envelope,
   has replaced that entry; the Store holds it once, next to another one. *)
C38_SameAppointmentTwice ==
  /\ last.op = "push" /\ last.path = "replace"
  /\ Len(scans) = 2
  /\ Cardinality({i \in 1..Len(scans) : scans[i] = last.scan}) = 1
  /\ scans[1].id # scans[2].id

----------------------------------------------------------------------------
(* The roles, under SpecBooking *)

AdministratorOps == {"create", "edit", "confirmed", "cancelled"}

(* C34: for a Scanner, every entry that a push event inserts into or replaces
   in the list view's Store is assigned to the actor; the manage modal opens
   only on an appointment of the Store that is assigned to the actor and is
   only ever open over such a snapshot, which is the one an unassign or a
   mark-scanned request is sent for; the create and edit forms are never
   open, and no create, edit, confirm or cancel request is sent. *)
C34_ScannerRestricted ==
  [][isScanner =>
       /\ view = "list" /\ last'.op = "push" /\ last'.path \in {"insert", "replace"}
            => \A i \in 1..Len(scans') :
                 scans'[i].id = last'.id => scans'[i].assignedTo = authId
       /\ last'.op = "openManage"
            => /\ StoreEntry(selectedScan'.id) = selectedScan'
               /\ selectedScan'.assignedTo = authId
       /\ showManage' => selectedScan'.assignedTo = authId
       /\ ~showForm' /\ ~showCreate'
       /\ \A req \in NewWrites :
            /\ req.op \notin AdministratorOps
            /\ req.op \in {"unassign", "markScanned"}
                 => req.id = selectedScan.id /\ selectedScan.assignedTo = authId]_vars

(* C34 witness: a Scanner has opened the manage modal on an appointment of
   theirs and has just sent the mark-scanned request for it. *)
C34_ScannerMarksOwn ==
  /\ isScanner /\ view = "agenda"
  /\ last.op = "markScanned"
  /\ showManage
  /\ selectedScan.assignedTo = authId
  /\ \E req \in Writes : req.op = "markScanned" /\ req.id = selectedScan.id

----------------------------------------------------------------------------
(* Responses that arrive out of order *)

(* The occupied-slots requests a step takes the response of. *)
SettledOccupied ==
  {r \in InFlight :
     r.kind = "occupied" /\ CopiesIn(r, inflight') < CopiesIn(r, inflight)}

(* C35 as stated: when the response that leaves no occupied-slots request in
   flight has been taken and the form is open on a date, that response is the
   one to the request for the form's date and the appointment it excludes,
   so that occupiedSlots is the set for the current date.  Under SpecBooking. *)
C35_LastOccupancyIsCurrent ==
  [][/\ last'.op \in {"occupied.ok", "occupied.fail"}
     /\ showForm' /\ formState'.dateValue # NoDate
     /\ \A r \in BagToSet(inflight') : r.kind # "occupied"
     => \A r \in SettledOccupied :
          r.date = formState'.dateValue /\ r.id = editingScan'.id]_vars

(* C36 as stated: in the list view, when the response that leaves no load in
   flight has been taken and has set the Store, it is the response to the
   request built from the filters, the page and the page size now in force.
   Under Spec. *)
C36_LastLoadIsCurrent ==
  [][/\ view = "list" /\ last'.op = "load.ok"
     /\ \A r \in BagToSet(inflight') : r.kind # "load"
     => \A r \in SettledLoads :
          r.query = [page |-> page', limit |-> limit', filters |-> filters']]_vars

----------------------------------------------------------------------------
(* Properties that depend on the viewer's clock, under SpecZones *)

(* C32 as stated: for every create or edit request in flight, in either view,
   and however the server reads the dateTime it carries, the stored instant
   read back through toLocalDateTimeParts / toLocalDate gives the date and
   the slot that were chosen in the form. *)
C32_WrittenDateTimeRoundTrips ==
  \A req \in Writes :
    req.op \in {"create", "edit"} =>
      \A serverOffset \in ServerOffsets :
        LET iso == PersistedInstant(payloadDateTime(req), serverOffset)
            back == IF req.origin = "agenda" THEN toLocalDate(iso)
                    ELSE toLocalDateTimeParts(iso)
        IN /\ back.dateValue = req.date
           /\ back.timeValue = req.time

(* C37 as stated: in the list view, for the filter cells in force and every
   appointment a response or an event may carry, matchesFilters accepts the
   appointment exactly when the query that buildQuery makes of the same
   cells selects it. *)
C37_FetchAndReconcilerAgree ==
  view = "list" =>
    \A scan \in ZonePayloads \cup Range(scans) :
      matchesFilters(scan, filters) <=> QuerySelects(scan, buildQuery)

(* C39 as stated: in the agenda, at every offset of the viewer's clock, the
   next-day button moves selectedDate to the following calendar day and the
   previous-day button to the preceding one. *)
C39_DateButtonsStepOneDay ==
  [][last'.op = "date" =>
       selectedDate' = selectedDate + (IF last'.path = "next" THEN 1 ELSE -1)]_vars

====
